---- MODULE Spec2Model ----
(***************************************************************************)
(* SimpleMcpLogger: the Logger policy engine (level filtering, MCP-mode    *)
(* gating, prefixing) and its file sink (fs.WriteStream creation, path     *)
(* switching, close), modelled from the file-capable Logger.               *)
(*                                                                         *)
(* One Logger instance is driven by a caller that awaits setLogFile and    *)
(* close; the Node stream it owns makes progress on its own (flush,        *)
(* finish, error).                                                         *)
(***************************************************************************)
EXTENDS Integers, Sequences, FiniteSets, TLC

(* ------------------------------ bounds -------------------------------- *)

\* Severity calls made in one behaviour of the sink's life cycle (SpecSink).
MaxCalls == 2

\* Severity calls made in one behaviour of the console surface (Spec).
MaxConsoleCalls == 1

\* fs.WriteStream objects created in one behaviour.
MaxStreams == 2

(* ------------------------------ values -------------------------------- *)

\* type LogLevel
LogLevel == {"debug", "info", "warn", "error", "silent"}

\* const levels: LogLevel[] = ['debug', 'info', 'warn', 'error']
levels == <<"debug", "info", "warn", "error">>

Prefixes == {"", "P"}

\* Paths whose directory can be created and whose file can be opened.
GoodPaths == {"a.log", "b.log"}

\* A path whose directory cannot be created: fs.mkdirSync throws.
InvalidPath == "/invalid/x.log"

\* A path in a read-only directory: the stream object is created, and its
\* open fails later with an 'error' event.
ReadOnlyPath == "ro/x.log"

Paths == GoodPaths \cup {InvalidPath, ReadOnlyPath}

\* config.logToFile absent (undefined); a falsy value.
NoPath == ""

\* this.fileStream === undefined
NoStream == 0

\* Argument values of a logging call, by what the code reads of them:
\* typeof, String(arg), JSON.stringify(arg), and whether JSON.stringify
\* throws (a circular structure).
StrArg == [typeof |-> "string", string |-> "x", json |-> "\"x\"", circular |-> FALSE]

ObjArg == [typeof |-> "object", string |-> "[object Object]", json |-> "{\"k\":1}", circular |-> FALSE]

CircArg == [typeof |-> "object", string |-> "[object Object]", json |-> "", circular |-> TRUE]

UndefinedArg == [typeof |-> "undefined", string |-> "undefined", json |-> "", circular |-> FALSE]

\* A string passed to a console primitive as its text argument.
TextArg(s) == [typeof |-> "string", string |-> s, json |-> "", circular |-> FALSE]

\* The argument lists the callers pass after the message.
ArgLists == {<< >>, <<ObjArg>>, <<CircArg>>}

Messages == {"m"}

\* An optional label: "" stands for an omitted (undefined) label.
Labels == {"", "L"}

(* ------------------------------ state --------------------------------- *)

VARIABLES
    config,      \* this.config: level, mcpMode, prefix, logToFile
    fileStream,  \* this.fileStream: index into streams, or NoStream
    streams,     \* every fs.WriteStream created, in creation order
    files,       \* the lines each path's file holds
    tasks,       \* setLogFile / close calls whose promise is not settled
    clock,       \* the readings of new Date() taken so far
    accepted,    \* the calls the level filter lets through to an active sink
    last,        \* the last operation: what it put on the console and wrote
    me,          \* which Logger `this` is: its number, and how its prefix came about
    others,      \* the other Logger instances: config, fileStream and me of each
    received     \* the adapter in front of the Logger, and what it was last handed

vars == <<config, fileStream, streams, files, tasks, clock, accepted, last, me, others,
          received>>

(* ------------------------------ helpers ------------------------------- *)

\* Array.prototype.indexOf, 0-based, -1 when absent.
indexOf(arr, x) ==
    IF \E i \in 1..Len(arr) : arr[i] = x
    THEN (CHOOSE i \in 1..Len(arr) : arr[i] = x /\ \A j \in 1..(i - 1) : arr[j] # x) - 1
    ELSE -1

\* JavaScript truthiness of a string-or-undefined value.
Truthy(s) == s # ""

\* String.prototype.toUpperCase on a level name.
toUpperCase(level) ==
    CASE level = "debug" -> "DEBUG"
      [] level = "info"  -> "INFO"
      [] level = "warn"  -> "WARN"
      [] level = "error" -> "ERROR"
      [] OTHER           -> level

\* Date.prototype.toISOString of the clock reading t.
toISOString(t) == t

\* A stream is live until it has finished (autoDestroy) or failed; a write
\* after end() destroys it at once, before its 'error' event is delivered.
destroyed(s) == s.st \in {"closed", "errored"} \/ s.writeAfterEnd

\* A stream some file descriptor is (or will be) held for.
IsOpen(s) == s.st \in {"opening", "open", "ending"}

\* The lines handed to stream.write() that have not reached the file.
Buffered(s) == SubSeq(s.written, s.flushed + 1, Len(s.written))

(* ---------------------------- policy core ------------------------------ *)

\* shouldLog without the test of the MCP mode.
shouldLogIgnoringMcpMode(level) ==
    IF config.level = "silent"
    THEN FALSE
    ELSE indexOf(levels, level) >= indexOf(levels, config.level)

\* Logger.shouldLog
shouldLog(level) ==
    IF config.mcpMode /\ ~Truthy(config.logToFile)
    THEN FALSE
    ELSE IF config.level = "silent"
         THEN FALSE
         ELSE indexOf(levels, level) >= indexOf(levels, config.level)

\* Logger.shouldLogToConsole
shouldLogToConsole(level) ==
    shouldLog(level) /\ (~config.mcpMode \/ ~Truthy(config.logToFile))

\* formatMessage without the test of the prefix: the space is put in even
\* when there is no prefix.
formatMessageAlwaysSpace(message) == config.prefix \o " " \o message

\* Logger.formatMessage
formatMessage(message) ==
    IF Truthy(config.prefix) THEN config.prefix \o " " \o message ELSE message

\* One invocation of a console primitive: console[channel](...argv).
ConsoleCall(channel, argv) == [channel |-> channel, argv |-> argv]

(* ----------------------------- file sink ------------------------------ *)

\* The message of the error fs.mkdirSync throws for InvalidPath.
MkdirErrorMessage == "EACCES: permission denied, mkdir '/invalid'"

\* The message of the error a failing stream reports.
StreamErrorMessage == "EIO: i/o error"

\* fs.createWriteStream(filePath, { flags: 'a' }): nothing written yet. The
\* open itself is asynchronous: a stream on ReadOnlyPath stays "opening"
\* until its open fails; on a good path it is usable at once ("open": writes
\* issued before the descriptor exists are buffered like any others).
createWriteStream(filePath) ==
    [path    |-> filePath,
     st      |-> IF filePath = ReadOnlyPath THEN "opening" ELSE "open",
     written |-> << >>,
     flushed |-> 0,
     ended   |-> FALSE,
     writeAfterEnd |-> FALSE]

\* The two console.error lines of the catch block of initFileLogging.
InitFailureReport(filePath) ==
    << ConsoleCall("error", <<TextArg("SimpleMcpLogger: Failed to initialize file logging for '"
                                      \o filePath \o "': " \o MkdirErrorMessage)>>),
       ConsoleCall("error", <<TextArg("SimpleMcpLogger: Possible causes: invalid path, insufficient permissions, or disk full.")>>) >>

\* The two console.error lines of the stream's 'error' handler.
StreamErrorReport(filePath) ==
    << ConsoleCall("error", <<TextArg("SimpleMcpLogger: File stream error for '"
                                      \o filePath \o "': " \o StreamErrorMessage)>>),
       ConsoleCall("error", <<TextArg("SimpleMcpLogger: File logging will be disabled. Check file permissions and disk space.")>>) >>

\* initFileLogging without its try / catch: the exception of mkdirSync leaves
\* the caller and nothing is reported.
initFileLoggingNoCatch(filePath, strs) ==
    IF filePath = InvalidPath
    THEN [fileStream |-> NoStream, streams |-> strs, console |-> << >>, threw |-> TRUE]
    ELSE [fileStream |-> Len(strs) + 1,
          streams    |-> Append(strs, createWriteStream(filePath)),
          console    |-> << >>, threw |-> FALSE]

\* Logger.initFileLogging on the streams strs: the new this.fileStream, the
\* streams, what the catch block put on the console, and whether an
\* exception left the method (the try block covers all of it).
initFileLogging(filePath, strs) ==
    IF filePath = InvalidPath
    THEN [fileStream |-> NoStream, streams |-> strs,
          console |-> InitFailureReport(filePath), threw |-> FALSE]
    ELSE [fileStream |-> Len(strs) + 1,
          streams    |-> Append(strs, createWriteStream(filePath)),
          console    |-> << >>, threw |-> FALSE]

\* String(arg) for every argument, objects included.
SerializeArgAsString(arg) == arg.string

\* typeof arg === 'object' ? JSON.stringify(arg) : String(arg)
SerializeArg(arg) == IF arg.typeof = "object" THEN arg.json ELSE arg.string

\* JSON.stringify throws on this argument list.
SerializeThrows(args) ==
    \E i \in 1..Len(args) : args[i].typeof = "object" /\ args[i].circular

\* args.map(...).join(' ')
RECURSIVE JoinArgs(_)
JoinArgs(args) ==
    IF Len(args) = 0 THEN ""
    ELSE IF Len(args) = 1 THEN SerializeArg(args[1])
    ELSE SerializeArg(args[1]) \o " " \o JoinArgs(Tail(args))

\* args.length > 0 ? ' ' + ... : ''
formattedArgs(args) == IF Len(args) > 0 THEN " " \o JoinArgs(args) ELSE ""

\* The line written for a call at clock reading t: the text that follows
\* "[timestamp] " is kept apart from the timestamp.
logLine(t, level, message, args) ==
    [timestamp |-> toISOString(t),
     text      |-> toUpperCase(level) \o ": " \o message \o formattedArgs(args) \o "\n"]

\* stream.write(line): buffered in call order; a write on a stream whose
\* end() was already called is refused (write after end): the stream is
\* destroyed with that error, and will neither write nor finish.
StreamWrite(s, line) ==
    IF s.st = "ending"
    THEN [s EXCEPT !.writeAfterEnd = TRUE]
    ELSE [s EXCEPT !.written = Append(@, line)]

\* writeToFile without the test of this.fileStream.destroyed: a failed or
\* finished stream is written to like a live one.
writeToFileUnchecked(t, level, message, args) ==
    IF fileStream # NoStream
    THEN IF SerializeThrows(args)
         THEN [threw |-> TRUE, lines |-> << >>, streams |-> streams]
         ELSE LET line == logLine(t, level, message, args)
              IN [threw   |-> FALSE,
                  lines   |-> <<line>>,
                  streams |-> [streams EXCEPT ![fileStream] = StreamWrite(@, line)]]
    ELSE [threw |-> FALSE, lines |-> << >>, streams |-> streams]

\* Logger.writeToFile at clock reading t: whether it threw, the lines it
\* handed to the stream, and the streams afterwards.
writeToFile(t, level, message, args) ==
    IF fileStream # NoStream /\ ~destroyed(streams[fileStream])
    THEN IF SerializeThrows(args)
         THEN [threw |-> TRUE, lines |-> << >>, streams |-> streams]
         ELSE LET line == logLine(t, level, message, args)
              IN [threw   |-> FALSE,
                  lines   |-> <<line>>,
                  streams |-> [streams EXCEPT ![fileStream] = StreamWrite(@, line)]]
    ELSE [threw |-> FALSE, lines |-> << >>, streams |-> streams]

\* writeToFile reads the clock: it got past its stream check.
ReadsClock(level) ==
    /\ shouldLog(level) /\ Truthy(config.logToFile)
    /\ fileStream # NoStream /\ ~destroyed(streams[fileStream])

(* --------------------------- construction ----------------------------- *)

\* What the last operation did. level: the level it was gated at; input: the
\* message and extra arguments of a severity or mcpError call; console: the console primitives it invoked,
\* in order; lines: what it handed to stream.write(); threw: an exception
\* left the call; stream: the stream the operation ended, opened or saw
\* finish; resolved: the calls whose promise this step resolved.
Did(op, level, input, console, lines, threw, stream, resolved) ==
    [op |-> op, level |-> level, input |-> input, console |-> console,
     lines |-> lines, threw |-> threw, stream |-> stream, resolved |-> resolved]

\* A level as a record carries it: a number, a name, or nothing.
NumLevel(n) == [typeof |-> "number", n |-> n, s |-> ""]

NameLevel(s) == [typeof |-> "string", n |-> 0, s |-> s]

UndefinedLevel == [typeof |-> "undefined", n |-> 0, s |-> ""]

\* No adapter: the program calls the Logger itself. Of an adapter: the last
\* record it was handed, the Logger calls it made for it, and the number of
\* records so far, those among them that ended in a catch block, and the
\* options it keeps (this.options).
NoAdapter ==
    [adapter |-> "", chunk |-> << >>, calls |-> << >>, count |-> 0, failures |-> 0,
     options |-> [level |-> UndefinedLevel, logToFile |-> NoPath]]

\* new Logger({level, mcpMode, prefix, logToFile})
ConstructedBy(via, op, input, level, mcpMode, prefix, logToFile) ==
    LET r == IF Truthy(logToFile)
             THEN initFileLogging(logToFile, << >>)
             ELSE [fileStream |-> NoStream, streams |-> << >>, console |-> << >>,
                   threw |-> FALSE]
    IN /\ config = [level |-> level, mcpMode |-> mcpMode, prefix |-> prefix,
                    logToFile |-> logToFile]
       /\ fileStream = r.fileStream
       /\ streams = r.streams
       /\ files = [p \in Paths |-> << >>]
       /\ tasks = << >>
       /\ clock = 0
       /\ accepted = << >>
       /\ me = [id |-> 1, base |-> prefix, names |-> << >>]
       /\ others = << >>
       /\ received = via
       /\ last = Did(op, "", input, r.console, << >>, r.threw, r.fileStream, << >>)

\* new Logger(...) with no adapter in front of it.
ConstructorAs(op, input, level, mcpMode, prefix, logToFile) ==
    ConstructedBy(NoAdapter, op, input, level, mcpMode, prefix, logToFile)

\* new Logger(...) called by the program itself.
Constructor(level, mcpMode, prefix, logToFile) ==
    ConstructorAs("constructor", << >>, level, mcpMode, prefix, logToFile)

\* The paths Loggers are constructed with; "b.log" is only switched to.
InitPaths == {NoPath, "a.log", InvalidPath, ReadOnlyPath}

\* A Logger constructed with any configuration.
Init ==
    \E level \in LogLevel, mcpMode \in BOOLEAN, prefix \in Prefixes,
       logToFile \in InitPaths :
        Constructor(level, mcpMode, prefix, logToFile)

\* A Logger constructed with threshold info and no prefix, in either mode.
InitSink ==
    \E mcpMode \in BOOLEAN, logToFile \in InitPaths :
        Constructor("info", mcpMode, "", logToFile)

(* ------------------------------ setters ------------------------------- *)

\* An operation that touches neither the sink nor the configuration.
ConsoleOnly(op, level, input, console) ==
    /\ last' = Did(op, level, input, console, << >>, FALSE, NoStream, << >>)
    /\ UNCHANGED <<config, fileStream, streams, files, tasks, clock, accepted, me, others,
                   received>>

\* Logger.setMcpMode
setMcpMode(enabled) ==
    /\ config' = [config EXCEPT !.mcpMode = enabled]
    /\ last' = Did("setMcpMode", "", << >>, << >>, << >>, FALSE, NoStream, << >>)
    /\ UNCHANGED <<fileStream, streams, files, tasks, clock, accepted, me, others, received>>

\* setLevel on a configuration object shared with the other instances: the
\* assignment shows in every Logger of the family.
setLevelShared(level) ==
    /\ config' = [config EXCEPT !.level = level]
    /\ others' = [k \in 1..Len(others) |->
                    [others[k] EXCEPT !.config = [@ EXCEPT !.level = level]]]
    /\ last' = Did("setLevel", "", << >>, << >>, << >>, FALSE, NoStream, << >>)
    /\ UNCHANGED <<fileStream, streams, files, tasks, clock, accepted, me, received>>

\* Logger.setLevel
setLevel(level) ==
    /\ config' = [config EXCEPT !.level = level]
    /\ last' = Did("setLevel", "", << >>, << >>, << >>, FALSE, NoStream, << >>)
    /\ UNCHANGED <<fileStream, streams, files, tasks, clock, accepted, me, others, received>>

\* Logger.setPrefix
setPrefix(prefix) ==
    /\ config' = [config EXCEPT !.prefix = prefix]
    /\ last' = Did("setPrefix", "", << >>, << >>, << >>, FALSE, NoStream, << >>)
    /\ me' = [me EXCEPT !.base = prefix, !.names = << >>]
    /\ UNCHANGED <<fileStream, streams, files, tasks, clock, accepted, others, received>>

(* -------------------------- severity methods -------------------------- *)

\* The position of a level on the scale debug < info < warn < error.
Ordinal(level) ==
    CASE level = "debug" -> 0
      [] level = "info"  -> 1
      [] level = "warn"  -> 2
      [] level = "error" -> 3

\* ordinal(L) >= ordinal(T) and T is not silent, for the threshold in force.
LevelPasses(level) ==
    config.level # "silent" /\ Ordinal(level) >= Ordinal(config.level)

\* The file sink is active: a stream is held, open, not ending, not failed.
SinkActive ==
    fileStream # NoStream /\ streams[fileStream].st = "open"

\* The common body of debug / info / warn / error: the file write, then the
\* console primitive of the method. An exception thrown by writeToFile
\* leaves the method before the console is reached.
SeverityCallAt(t0, acc0, op, level, channel, message, args) ==
    /\ LET text == formatMessage(message)
           w == IF shouldLog(level) /\ Truthy(config.logToFile)
                THEN writeToFile(t0 + 1, level, text, args)
                ELSE [threw |-> FALSE, lines |-> << >>, streams |-> streams]
           c == IF shouldLog(level) /\ ~w.threw /\ shouldLogToConsole(level)
                THEN <<ConsoleCall(channel, <<TextArg(text)>> \o args)>>
                ELSE << >>
       IN /\ streams' = w.streams
          /\ last' = Did(op, level, <<message, args>>, c, w.lines, w.threw, NoStream, << >>)
          /\ accepted' = IF SinkActive /\ LevelPasses(level)
                         THEN Append(acc0, [timestamp |-> t0 + 1,
                                            stream |-> fileStream,
                                            threw |-> w.threw])
                         ELSE acc0
    /\ clock' = IF ReadsClock(level) THEN t0 + 1 ELSE t0
    /\ UNCHANGED <<config, fileStream, files, tasks, me, others>>

\* A severity method called by the program itself, at the present clock.
SeverityCall(op, level, channel, message, args) ==
    /\ SeverityCallAt(clock, accepted, op, level, channel, message, args)
    /\ UNCHANGED received

\* Logger.debug
debug(message, args) == SeverityCall("debug", "debug", "debug", message, args)

\* info on console.log (stdout) instead of console.error.
infoOnStdout(message, args) == SeverityCall("info", "info", "log", message, args)

\* Logger.info
info(message, args) == SeverityCall("info", "info", "error", message, args)

\* Logger.warn
warn(message, args) == SeverityCall("warn", "warn", "warn", message, args)

\* Logger.error
error(message, args) == SeverityCall("error", "error", "error", message, args)

\* Logger.log: this.info(message, ...args)
log(message, args) == SeverityCall("log", "info", "error", message, args)

\* mcpError behind the level filter, as the severity methods are.
mcpErrorGated(message, args) ==
    ConsoleOnly("mcpError", "", <<message, args>>,
                IF shouldLog("error")
                THEN <<ConsoleCall("error", <<TextArg(formatMessage(message))>> \o args)>>
                ELSE << >>)

\* Logger.mcpError
mcpError(message, args) ==
    ConsoleOnly("mcpError", "", <<message, args>>,
                <<ConsoleCall("error", <<TextArg(formatMessage(message))>> \o args)>>)

(* ----------------------- other console methods ------------------------ *)

\* label ? this.formatMessage(label) : undefined
timerLabel(label) ==
    IF Truthy(label) THEN TextArg(formatMessage(label)) ELSE UndefinedArg

\* A boolean passed to a console primitive.
BoolArg(b) ==
    [typeof |-> "boolean", string |-> IF b THEN "true" ELSE "false",
     json |-> "", circular |-> FALSE]

\* The calls made under `if (this.shouldLog(level))`.
Gated(level, calls) == IF shouldLog(level) THEN calls ELSE << >>

\* Logger.trace
trace(message, args) ==
    ConsoleOnly("trace", "debug", << >>,
        Gated("debug",
              IF Truthy(message)
              THEN <<ConsoleCall("trace", <<TextArg(formatMessage(message))>> \o args)>>
              ELSE <<ConsoleCall("trace", << >>)>>))

\* Logger.table
table(data, columns) ==
    ConsoleOnly("table", "info", << >>,
        Gated("info", <<ConsoleCall("table", <<data, columns>>)>>))

\* Logger.group
group(label) ==
    ConsoleOnly("group", "info", << >>,
        Gated("info",
              IF Truthy(label)
              THEN <<ConsoleCall("group", <<TextArg(formatMessage(label))>>)>>
              ELSE <<ConsoleCall("group", << >>)>>))

\* Logger.groupCollapsed
groupCollapsed(label) ==
    ConsoleOnly("groupCollapsed", "info", << >>,
        Gated("info",
              IF Truthy(label)
              THEN <<ConsoleCall("groupCollapsed", <<TextArg(formatMessage(label))>>)>>
              ELSE <<ConsoleCall("groupCollapsed", << >>)>>))

\* Logger.groupEnd
groupEnd ==
    ConsoleOnly("groupEnd", "info", << >>, Gated("info", <<ConsoleCall("groupEnd", << >>)>>))

\* Logger.time
time(label) ==
    ConsoleOnly("time", "debug", << >>,
        Gated("debug", <<ConsoleCall("time", <<timerLabel(label)>>)>>))

\* Logger.timeEnd
timeEnd(label) ==
    ConsoleOnly("timeEnd", "debug", << >>,
        Gated("debug", <<ConsoleCall("timeEnd", <<timerLabel(label)>>)>>))

\* Logger.timeLog
timeLog(label, args) ==
    ConsoleOnly("timeLog", "debug", << >>,
        Gated("debug", <<ConsoleCall("timeLog", <<timerLabel(label)>> \o args)>>))

\* Logger.count
count(label) ==
    ConsoleOnly("count", "debug", << >>,
        Gated("debug", <<ConsoleCall("count", <<timerLabel(label)>>)>>))

\* Logger.countReset
countReset(label) ==
    ConsoleOnly("countReset", "debug", << >>,
        Gated("debug", <<ConsoleCall("countReset", <<timerLabel(label)>>)>>))

\* Logger.assert
assert(condition, message, args) ==
    ConsoleOnly("assert", "error", << >>,
        Gated("error",
              IF Truthy(message)
              THEN <<ConsoleCall("assert", <<BoolArg(condition), TextArg(formatMessage(message))>> \o args)>>
              ELSE <<ConsoleCall("assert", <<BoolArg(condition)>> \o args)>>))

\* Logger.clear; hasClear: the host console provides console.clear.
clear(hasClear) ==
    ConsoleOnly("clear", "debug", << >>,
        IF shouldLog("debug") /\ hasClear
        THEN <<ConsoleCall("clear", << >>)>>
        ELSE << >>)

\* Logger.dir
dir(obj, options) ==
    ConsoleOnly("dir", "info", << >>, Gated("info", <<ConsoleCall("dir", <<obj, options>>)>>))

\* Logger.dirxml
dirxml(obj) ==
    ConsoleOnly("dirxml", "info", << >>, Gated("info", <<ConsoleCall("dirxml", <<obj>>)>>))

(* -------------------------- sink lifecycle ---------------------------- *)

\* A pending setLogFile or close call: op is the call, path the argument of
\* setLogFile, stream the stream whose end() callback it waits for (NoStream
\* when close() resolved at once), st "waiting" for that callback or "ready"
\* to run the continuation after `await this.close()`.
Task(op, path, stream, st) == [op |-> op, path |-> path, stream |-> stream, st |-> st]

\* stream.end(callback)
StreamEnd(s) == [s EXCEPT !.st = "ending", !.ended = TRUE]

\* Logger.close, reached as op (the Logger's own close, or an adapter's
\* close / end / destroy that forwards to it).
close(op) ==
    /\ IF fileStream # NoStream /\ ~destroyed(streams[fileStream])
       THEN /\ streams' = [streams EXCEPT ![fileStream] = StreamEnd(@)]
            /\ tasks' = Append(tasks, Task(op, NoPath, fileStream, "waiting"))
            /\ last' = Did(op, "", << >>, << >>, << >>, FALSE, fileStream, << >>)
       ELSE /\ last' = Did(op, "", << >>, << >>, << >>, FALSE, NoStream, <<op>>)
            /\ UNCHANGED <<streams, tasks>>
    /\ UNCHANGED <<config, fileStream, files, clock, accepted, me, others, received>>

\* SimpleMcpPinoTransport.close
TransportClose == close("close")

\* createPinoDestination: end()
DestinationEnd == TransportClose

\* createPinoDestination: destroy()
DestinationDestroy == TransportClose

\* setLogFile without the await: close() is called and the continuation is
\* ready at once, whatever the state of the stream being ended.
setLogFileNoAwait(filePath) ==
    /\ Len(streams) < MaxStreams
    /\ IF fileStream # NoStream /\ ~destroyed(streams[fileStream])
       THEN streams' = [streams EXCEPT ![fileStream] = StreamEnd(@)]
       ELSE UNCHANGED streams
    /\ tasks' = Append(tasks, Task("setLogFile", filePath, NoStream, "ready"))
    /\ last' = Did("setLogFile", "", << >>, << >>, << >>, FALSE, NoStream, << >>)
    /\ UNCHANGED <<config, fileStream, files, clock, accepted, me, others, received>>

\* Logger.setLogFile up to its `await this.close()`.
setLogFile(filePath) ==
    /\ Len(streams) < MaxStreams
    /\ IF fileStream # NoStream /\ ~destroyed(streams[fileStream])
       THEN /\ streams' = [streams EXCEPT ![fileStream] = StreamEnd(@)]
            /\ tasks' = Append(tasks, Task("setLogFile", filePath, fileStream, "waiting"))
            /\ last' = Did("setLogFile", "", << >>, << >>, << >>, FALSE, fileStream, << >>)
       ELSE /\ tasks' = Append(tasks, Task("setLogFile", filePath, NoStream, "ready"))
            /\ last' = Did("setLogFile", "", << >>, << >>, << >>, FALSE, NoStream, << >>)
            /\ UNCHANGED streams
    /\ UNCHANGED <<config, fileStream, files, clock, accepted, me, others, received>>

\* No continuation is ready: pending microtasks run before any event.
NoMicrotask == \A k \in 1..Len(tasks) : tasks[k].st # "ready"

\* Logger.setLogFile after the await: the continuation of the first ready
\* call (microtasks run in the order their promises resolved; a call whose
\* promise is still pending is not among them).
Resume ==
    /\ ~NoMicrotask
    /\ LET k == CHOOSE n \in 1..Len(tasks) :
                    /\ tasks[n].st = "ready"
                    /\ \A j \in 1..(n - 1) : tasks[j].st # "ready"
           r == initFileLogging(tasks[k].path, streams)
       IN /\ config' = [config EXCEPT !.logToFile = tasks[k].path]
          /\ fileStream' = r.fileStream
          /\ streams' = r.streams
          /\ last' = Did("setLogFile.resumed", "", << >>, r.console, << >>, r.threw,
                         r.fileStream, IF r.threw THEN << >> ELSE <<"setLogFile">>)
          /\ tasks' = SubSeq(tasks, 1, k - 1) \o SubSeq(tasks, k + 1, Len(tasks))
    /\ UNCHANGED <<files, clock, accepted, me, others, received>>

\* The callbacks given to end() on stream i run: each sets this.fileStream to
\* undefined and resolves its promise. A close call is then settled; a
\* setLogFile call becomes ready to continue.
RECURSIVE AfterEnd(_, _)
AfterEnd(ts, i) ==
    IF ts = << >> THEN << >>
    ELSE LET h == Head(ts)
         IN IF h.st = "waiting" /\ h.stream = i
            THEN IF h.op = "setLogFile"
                 THEN <<[h EXCEPT !.st = "ready"]>> \o AfterEnd(Tail(ts), i)
                 ELSE AfterEnd(Tail(ts), i)
            ELSE <<h>> \o AfterEnd(Tail(ts), i)

\* The close calls (not setLogFile) whose end() callback waits on stream i.
RECURSIVE ClosesOn(_, _)
ClosesOn(ts, i) ==
    IF ts = << >> THEN << >>
    ELSE IF Head(ts).st = "waiting" /\ Head(ts).stream = i /\ Head(ts).op # "setLogFile"
         THEN <<Head(ts).op>> \o ClosesOn(Tail(ts), i)
         ELSE ClosesOn(Tail(ts), i)

\* Some end() callback waits on stream i.
Awaited(i) == \E k \in 1..Len(tasks) : tasks[k].st = "waiting" /\ tasks[k].stream = i

\* The descriptor of this stream can be opened.
CanOpen(s) == s.path # ReadOnlyPath

\* The stream writes its oldest buffered line to the file.
Flush(i) ==
    /\ NoMicrotask
    /\ streams[i].st \in {"open", "ending"}
    /\ ~streams[i].writeAfterEnd
    /\ CanOpen(streams[i])
    /\ streams[i].flushed < Len(streams[i].written)
    /\ files' = [files EXCEPT ![streams[i].path] =
                    Append(@, streams[i].written[streams[i].flushed + 1])]
    /\ streams' = [streams EXCEPT ![i].flushed = @ + 1]
    /\ last' = Did("flush", "", << >>, << >>, << >>, FALSE, i, << >>)
    /\ UNCHANGED <<config, fileStream, tasks, clock, accepted, me, others, received>>

\* 'finish' without waiting for the buffer to drain: the end() callbacks run
\* and the stream is destroyed with lines still buffered.
FinishEarly(i) ==
    /\ NoMicrotask
    /\ streams[i].st = "ending"
    /\ CanOpen(streams[i])
    /\ streams' = [streams EXCEPT ![i].st = "closed"]
    /\ fileStream' = IF Awaited(i) THEN NoStream ELSE fileStream
    /\ tasks' = AfterEnd(tasks, i)
    /\ last' = Did("finish", "", << >>, << >>, << >>, FALSE, i, ClosesOn(tasks, i))
    /\ UNCHANGED <<config, files, clock, accepted, me, others, received>>

\* An ended stream has written everything: 'finish'. The end() callbacks run,
\* then the stream destroys itself (autoDestroy).
Finish(i) ==
    /\ NoMicrotask
    /\ streams[i].st = "ending"
    /\ ~streams[i].writeAfterEnd
    /\ CanOpen(streams[i])
    /\ streams[i].flushed = Len(streams[i].written)
    /\ streams' = [streams EXCEPT ![i].st = "closed"]
    /\ fileStream' = IF Awaited(i) THEN NoStream ELSE fileStream
    /\ tasks' = AfterEnd(tasks, i)
    /\ last' = Did("finish", "", << >>, << >>, << >>, FALSE, i, ClosesOn(tasks, i))
    /\ UNCHANGED <<config, files, clock, accepted, me, others, received>>

\* The stream fails and the callbacks given to end() are not called: only
\* 'finish' would run them.
StreamErrorNoCallback(i) ==
    /\ NoMicrotask
    /\ IsOpen(streams[i])
    /\ streams' = [streams EXCEPT ![i].st = "errored"]
    /\ last' = Did("streamError", "", << >>, StreamErrorReport(streams[i].path), << >>, FALSE,
                   i, << >>)
    /\ UNCHANGED <<config, fileStream, tasks, files, clock, accepted, me, others, received>>

\* The stream fails (its open fails, or a write does): what it buffered is
\* lost, the 'error' handler of initFileLogging reports on console.error, the
\* stream is destroyed, and pending end() callbacks run with the error.
StreamError(i) ==
    /\ NoMicrotask
    /\ IsOpen(streams[i])
    /\ streams' = [streams EXCEPT ![i].st = "errored"]
    /\ fileStream' = IF Awaited(i) THEN NoStream ELSE fileStream
    /\ tasks' = AfterEnd(tasks, i)
    /\ last' = Did("streamError", "", << >>, StreamErrorReport(streams[i].path), << >>, FALSE,
                   i, ClosesOn(tasks, i))
    /\ UNCHANGED <<config, files, clock, accepted, me, others, received>>

(* ------------------------------ adapters ------------------------------ *)

\* levelMap of mapPinoLevelToMcp
PinoLevelMap ==
    [fatal |-> "error", error |-> "error", warn |-> "warn", info |-> "info",
     debug |-> "debug", trace |-> "debug"]

\* mapPinoLevelToMcp with > for >=: a number on a boundary falls one level
\* lower.
mapPinoLevelStrict(pinoLevel) ==
    IF pinoLevel.typeof = "number"
    THEN IF pinoLevel.n > 50 THEN "error"
         ELSE IF pinoLevel.n > 40 THEN "warn"
         ELSE IF pinoLevel.n > 30 THEN "info"
         ELSE "debug"
    ELSE IF pinoLevel.typeof = "string" /\ pinoLevel.s \in DOMAIN PinoLevelMap
         THEN PinoLevelMap[pinoLevel.s]
         ELSE "info"

\* SimpleMcpPinoTransport.mapPinoLevelToMcp
mapPinoLevelToMcp(pinoLevel) ==
    IF pinoLevel.typeof = "number"
    THEN IF pinoLevel.n >= 60 THEN "error"
         ELSE IF pinoLevel.n >= 50 THEN "error"
         ELSE IF pinoLevel.n >= 40 THEN "warn"
         ELSE IF pinoLevel.n >= 30 THEN "info"
         ELSE IF pinoLevel.n >= 20 THEN "debug"
         ELSE "debug"
    ELSE IF pinoLevel.typeof = "string" /\ pinoLevel.s \in DOMAIN PinoLevelMap
         THEN PinoLevelMap[pinoLevel.s]
         ELSE "info"

\* levelMap of mapWinstonLevelToMcp
WinstonLevelMap ==
    [error |-> "error", warn |-> "warn", info |-> "info", http |-> "info",
     verbose |-> "debug", debug |-> "debug", silly |-> "debug"]

\* SimpleMcpWinstonTransport.mapWinstonLevelToMcp
mapWinstonLevelToMcp(winstonLevel) ==
    IF winstonLevel.typeof = "string" /\ winstonLevel.s \in DOMAIN WinstonLevelMap
    THEN WinstonLevelMap[winstonLevel.s]
    ELSE "info"

\* The fields the destructuring of transform leaves out, without the loop's
\* test of 'v'.
PinoInternalWithoutV == {"level", "msg", "time", "hostname", "pid"}

\* The fields the destructuring and the loop of transform leave out.
PinoInternal == {"level", "msg", "time", "hostname", "pid", "v"}

\* The fields the destructuring and the loop of log leave out.
WinstonInternal == {"level", "message", "timestamp", "splat"}

\* The field names of the model that begin with 'Symbol('.
SymbolNamed == {"Symbol(level)"}

\* key.startsWith('Symbol(')
startsWithSymbol(key) == key \in SymbolNamed

\* The order in which the fields of a metadata object are serialized.
FieldOrder ==
    <<"msg", "message", "time", "timestamp", "hostname", "pid", "v", "splat", "userId", "self">>

\* JSON.stringify of an object with the fields keys, each with the value 1.
RECURSIVE JsonFields(_, _)
JsonFields(order, keys) ==
    IF order = << >> THEN ""
    ELSE LET rest == JsonFields(Tail(order), keys)
         IN IF Head(order) \in keys
            THEN "\"" \o Head(order) \o "\":1" \o (IF rest = "" THEN "" ELSE "," \o rest)
            ELSE rest

\* cleanMeta with the fields keys; the field self holds the object itself,
\* which has then no JSON serialization.
MetaArg(keys) ==
    [typeof |-> "object", string |-> "[object Object]",
     json |-> IF "self" \in keys THEN "" ELSE "{" \o JsonFields(FieldOrder, keys) \o "}",
     circular |-> "self" \in keys, keys |-> keys]

\* The error caught by transform, as an argument: JSON.stringify gives '{}'.
ErrorArg ==
    [typeof |-> "object", string |-> "Error", json |-> "{}", circular |-> FALSE]

\* The message of the catch block of transform.
ParseFailure == "Failed to parse log message"

\* One call of a Logger method by an adapter.
Call(op, message, args) == [op |-> op, message |-> message, args |-> args]

\* this.logger.debug / info / warn / error (message, ...args), at clock
\* reading t0.
LoggerCall(op, t0, acc0, message, args) ==
    CASE op = "debug" -> SeverityCallAt(t0, acc0, "debug", "debug", "debug", message, args)
      [] op = "info"  -> SeverityCallAt(t0, acc0, "info", "info", "error", message, args)
      [] op = "warn"  -> SeverityCallAt(t0, acc0, "warn", "warn", "warn", message, args)
      [] op = "error" -> SeverityCallAt(t0, acc0, "error", "error", "error", message, args)

\* The switch of transform and log: the method of the level, info by default.
Dispatched(level) == IF level \in {"debug", "info", "warn", "error"} THEN level ELSE "info"

\* The Logger method op, called with args, throws (writeToFile reaches
\* JSON.stringify on an object that has no serialization).
Throws(op, args) == ReadsClock(op) /\ SerializeThrows(args)

\* transform without its try / catch: a payload that cannot be read, and an
\* exception of the Logger method, leave transform as an exception.
transformNoCatch(chunk) ==
    /\ received.adapter = "pino"
    /\ IF ~chunk.valid
       THEN /\ last' = Did("transform", "", << >>, << >>, << >>, TRUE, NoStream, << >>)
            /\ received' = [received EXCEPT !.count = @ + 1, !.failures = @ + 1,
                               !.chunk = chunk, !.calls = << >>]
            /\ UNCHANGED <<config, fileStream, streams, files, tasks, clock, accepted, me,
                           others>>
       ELSE LET logObj == chunk.record
                level == mapPinoLevelToMcp(logObj.level)
                message == IF "msg" \in logObj.fields THEN "m" ELSE ""
                cleanMeta == {key \in logObj.fields \ PinoInternal : ~startsWithSymbol(key)}
                args == IF cleanMeta # {} THEN <<MetaArg(cleanMeta)>> ELSE << >>
                op == Dispatched(level)
            IN /\ LoggerCall(op, clock, accepted, message, args)
               /\ received' = [received EXCEPT !.count = @ + 1, !.chunk = chunk,
                                  !.calls = <<Call(op, message, args)>>]

\* SimpleMcpPinoTransport.transform. chunk: kind "object", "string" or "null"
\* (null, undefined, or the JSON text of null), valid (an object, or a string
\* that JSON.parse turns into one), and the record: its level and the names
\* of its other fields. A failed parse, the read of a property of null, and
\* an exception of the Logger method, end in the catch block, which calls
\* logger.error.
transform(chunk) ==
    /\ received.adapter = "pino"
    /\ IF ~chunk.valid
       THEN /\ LoggerCall("error", clock, accepted, ParseFailure, <<ErrorArg>>)
            /\ received' = [received EXCEPT !.count = @ + 1, !.failures = @ + 1,
                               !.chunk = chunk,
                               !.calls = <<Call("error", ParseFailure, <<ErrorArg>>)>>]
       ELSE LET logObj == chunk.record
                level == mapPinoLevelToMcp(logObj.level)
                message == IF "msg" \in logObj.fields THEN "m" ELSE ""
                cleanMeta == {key \in logObj.fields \ PinoInternal : ~startsWithSymbol(key)}
                args == IF cleanMeta # {} THEN <<MetaArg(cleanMeta)>> ELSE << >>
                op == Dispatched(level)
            IN IF Throws(op, args)
               THEN /\ LoggerCall("error", clock + 1,
                                   IF SinkActive /\ LevelPasses(op)
                                   THEN Append(accepted, [timestamp |-> clock + 1,
                                                          stream |-> fileStream,
                                                          threw |-> TRUE])
                                   ELSE accepted,
                                   ParseFailure, <<ErrorArg>>)
                    /\ received' = [received EXCEPT !.count = @ + 1, !.failures = @ + 1,
                                       !.chunk = chunk,
                                       !.calls = <<Call(op, message, args),
                                                   Call("error", ParseFailure, <<ErrorArg>>)>>]
               ELSE /\ LoggerCall(op, clock, accepted, message, args)
                    /\ received' = [received EXCEPT !.count = @ + 1, !.chunk = chunk,
                                       !.calls = <<Call(op, message, args)>>]

\* SimpleMcpWinstonTransport.log(info, callback), for the record entry: the
\* Logger method of the mapped level; the callback and the 'logged' event
\* follow.
WinstonLog(entry) ==
    /\ received.adapter = "winston"
    /\ LET level == mapWinstonLevelToMcp(entry.level)
           message == IF "message" \in entry.fields THEN "m" ELSE ""
           cleanMeta == {key \in entry.fields \ WinstonInternal : ~startsWithSymbol(key)}
           args == IF cleanMeta # {} THEN <<MetaArg(cleanMeta)>> ELSE << >>
           op == Dispatched(level)
       IN /\ LoggerCall(op, clock, accepted, message, args)
          /\ received' = [received EXCEPT !.count = @ + 1,
                             !.chunk = [kind |-> "object", valid |-> TRUE, record |-> entry],
                             !.calls = <<Call(op, message, args)>>]

\* options.level || 'info'
OrInfo(level) == IF level.typeof = "string" /\ level.s # "" THEN level ELSE NameLevel("info")

\* new SimpleMcpPinoTransport({ level, mcpMode, prefix, logToFile })
PinoTransport(level, mcpMode, prefix, logToFile) ==
    ConstructedBy([NoAdapter EXCEPT !.adapter = "pino",
                                    !.options = [level |-> level, logToFile |-> logToFile]],
                  "constructor", << >>,
                  mapPinoLevelToMcp(OrInfo(level)), mcpMode, prefix, logToFile)

\* new SimpleMcpWinstonTransport({ level, mcpMode, prefix, logToFile }): the
\* options are kept, the Logger is given level, mcpMode and prefix and no
\* file path.
WinstonTransport(level, mcpMode, prefix, logToFile) ==
    ConstructedBy([NoAdapter EXCEPT !.adapter = "winston",
                                    !.options = [level |-> level, logToFile |-> logToFile]],
                  "constructor", << >>,
                  mapWinstonLevelToMcp(OrInfo(level)), mcpMode, prefix, NoPath)

\* A call of a method that SimpleMcpWinstonTransport does not define
\* (setLogFile, close): a TypeError, and nothing else happens.
WinstonUndefinedMethod(op, input) ==
    /\ received.adapter = "winston"
    /\ last' = Did(op, "", input, << >>, << >>, TRUE, NoStream, << >>)
    /\ UNCHANGED <<config, fileStream, streams, files, tasks, clock, accepted, me, others,
                   received>>

\* transport.setLogFile(filePath) on a Winston transport
WinstonSetLogFile(filePath) == WinstonUndefinedMethod("setLogFile", <<filePath>>)

\* transport.close() on a Winston transport
WinstonClose == WinstonUndefinedMethod("close", << >>)

(* --------------------------- child loggers ---------------------------- *)

\* A Logger instance the caller is not addressing.
Instance(cfg, stream, who) == [config |-> cfg, fileStream |-> stream, me |-> who]

\* The child prefix with the ':' put in whatever the parent's prefix is.
childPrefixAlwaysColon(prefix) == config.prefix \o ":" \o prefix

\* this.config.prefix ? `${this.config.prefix}:${prefix}` : prefix
childPrefix(prefix) ==
    IF Truthy(config.prefix) THEN config.prefix \o ":" \o prefix ELSE prefix

\* child handing the parent's stream object to the child instead of letting
\* the constructor open one.
childSharingStream(prefix) ==
    /\ LET cfg == [config EXCEPT !.prefix = childPrefix(prefix)]
           who == [id |-> Len(others) + 2, base |-> me.base, names |-> Append(me.names, prefix)]
       IN /\ others' = Append(others, Instance(cfg, fileStream, who))
          /\ last' = Did("child", "", <<prefix>>, << >>, << >>, FALSE, fileStream, << >>)
    /\ UNCHANGED <<config, fileStream, streams, files, tasks, clock, accepted, me, received>>

\* Logger.child: new Logger({ ...this.config, prefix }). The constructor
\* copies the configuration and, when it has a file path, opens a stream of
\* its own for it.
child(prefix) ==
    /\ LET cfg == [config EXCEPT !.prefix = childPrefix(prefix)]
           r == IF Truthy(cfg.logToFile)
                THEN initFileLogging(cfg.logToFile, streams)
                ELSE [fileStream |-> NoStream, streams |-> streams, console |-> << >>,
                      threw |-> FALSE]
           who == [id |-> Len(others) + 2, base |-> me.base, names |-> Append(me.names, prefix)]
       IN /\ others' = Append(others, Instance(cfg, r.fileStream, who))
          /\ streams' = r.streams
          /\ last' = Did("child", "", <<prefix>>, r.console, << >>, r.threw, r.fileStream, << >>)
    /\ UNCHANGED <<config, fileStream, files, tasks, clock, accepted, me, received>>

\* SimpleMcpPinoTransport.child: the child of the Logger, then a new
\* transport built from this.options, whose constructor makes a Logger (and
\* with logToFile a stream) of its own, and whose logger field is then set to
\* the child: the Logger the constructor made is dropped with its stream open.
PinoChild(prefix) ==
    /\ received.adapter = "pino"
    /\ LET cfg == [config EXCEPT !.prefix = childPrefix(prefix)]
           none(strs) == [fileStream |-> NoStream, streams |-> strs, console |-> << >>,
                          threw |-> FALSE]
           c == IF Truthy(cfg.logToFile)
                THEN initFileLogging(cfg.logToFile, streams)
                ELSE none(streams)
           n == IF Truthy(received.options.logToFile)
                THEN initFileLogging(received.options.logToFile, c.streams)
                ELSE none(c.streams)
           who == [id |-> Len(others) + 2, base |-> me.base, names |-> Append(me.names, prefix)]
       IN /\ others' = Append(others, Instance(cfg, c.fileStream, who))
          /\ streams' = n.streams
          /\ last' = Did("child", "", <<prefix>>, c.console \o n.console, << >>, FALSE,
                         c.fileStream, << >>)
    /\ UNCHANGED <<config, fileStream, files, tasks, clock, accepted, me, received>>

\* new Logger({ level, mcpMode, prefix, logToFile }) by a program that
\* already has Loggers: one more instance, with a stream of its own when it
\* has a file path.
NewLogger(level, mcpMode, prefix, logToFile) ==
    /\ LET cfg == [level |-> level, mcpMode |-> mcpMode, prefix |-> prefix,
                   logToFile |-> logToFile]
           r == IF Truthy(logToFile)
                THEN initFileLogging(logToFile, streams)
                ELSE [fileStream |-> NoStream, streams |-> streams, console |-> << >>,
                      threw |-> FALSE]
           who == [id |-> Len(others) + 2, base |-> prefix, names |-> << >>]
       IN /\ others' = Append(others, Instance(cfg, r.fileStream, who))
          /\ streams' = r.streams
          /\ last' = Did("constructor", "", << >>, r.console, << >>, r.threw, r.fileStream,
                         << >>)
    /\ UNCHANGED <<config, fileStream, files, tasks, clock, accepted, me, received>>

\* The caller turns to another Logger instance: `this` of the next calls is
\* others[k].
Turn(k) ==
    /\ config' = others[k].config
    /\ fileStream' = others[k].fileStream
    /\ me' = others[k].me
    /\ others' = [others EXCEPT ![k] = Instance(config, fileStream, me)]
    /\ last' = Did("turn", "", << >>, << >>, << >>, FALSE, NoStream, << >>)
    /\ UNCHANGED <<streams, files, tasks, clock, accepted, received>>

(* --------------------------- specification ---------------------------- *)

\* The argument lists passed to the aux console methods.
NoArgs == {<< >>}

\* The console surface of the Logger: every public logging method, on a
\* Logger as constructed and reconfigured by its setters.
Next ==
    \/ \E enabled \in BOOLEAN : setMcpMode(enabled)
    \/ \E level \in LogLevel : setLevel(level)
    \/ \E prefix \in Prefixes : setPrefix(prefix)
    \/ \E message \in Messages, args \in ArgLists :
          clock < MaxConsoleCalls /\ debug(message, args)
    \/ \E message \in Messages, args \in ArgLists :
          clock < MaxConsoleCalls /\ info(message, args)
    \/ \E message \in Messages, args \in ArgLists :
          clock < MaxConsoleCalls /\ warn(message, args)
    \/ \E message \in Messages, args \in ArgLists :
          clock < MaxConsoleCalls /\ error(message, args)
    \/ \E message \in Messages, args \in ArgLists :
          clock < MaxConsoleCalls /\ log(message, args)
    \/ \E message \in Messages, args \in ArgLists : mcpError(message, args)
    \/ \E message \in Labels, args \in NoArgs : trace(message, args)
    \/ table(ObjArg, UndefinedArg)
    \/ \E label \in Labels : group(label)
    \/ \E label \in Labels : groupCollapsed(label)
    \/ groupEnd
    \/ \E label \in Labels : time(label)
    \/ \E label \in Labels : timeEnd(label)
    \/ \E label \in Labels, args \in NoArgs : timeLog(label, args)
    \/ \E label \in Labels : count(label)
    \/ \E label \in Labels : countReset(label)
    \/ \E condition \in BOOLEAN, message \in Labels, args \in NoArgs :
          assert(condition, message, args)
    \/ \E hasClear \in BOOLEAN : clear(hasClear)
    \/ dir(ObjArg, UndefinedArg)
    \/ dirxml(ObjArg)

Spec == Init /\ [][Next]_vars

\* The caller has no setLogFile or close call in flight: it awaits each one
\* before its next operation.
Idle == tasks = << >>

\* The argument lists of the severity calls in the sink's life cycle.
SinkArgLists == {<< >>, <<CircArg>>}

\* The life cycle of the file sink: a caller that logs below, at and above
\* the threshold, switches the path and closes, awaiting each setLogFile and
\* close, while the stream makes progress on its own.
NextSink ==
    \/ \E message \in Messages, args \in SinkArgLists :
          Idle /\ clock < MaxCalls /\ debug(message, args)
    \/ \E message \in Messages, args \in SinkArgLists :
          Idle /\ clock < MaxCalls /\ info(message, args)
    \/ Idle /\ close("close")
    \/ Idle /\ TransportClose
    \/ Idle /\ DestinationEnd
    \/ Idle /\ DestinationDestroy
    \/ \E filePath \in Paths : Idle /\ setLogFile(filePath)
    \/ Resume
    \/ \E i \in 1..Len(streams) : Flush(i)
    \/ \E i \in 1..Len(streams) : Finish(i)
    \/ \E i \in 1..Len(streams) : StreamError(i)

SpecSink == InitSink /\ [][NextSink]_vars

\* The second argument of createMcpLogger: omitted, the boolean false of the
\* README's testing example, or a path.
SecondArgs == {"undefined", "false", "a.log"}

\* process.env.MCP_MODE: unset (""), 'true' or 'false'.
McpModeEnv == {"", "true", "false"}

\* The value config.logToFile takes from the second argument: undefined and
\* false are both falsy, so neither opens a file.
AsLogToFile(second) == IF second \in {"undefined", "false"} THEN NoPath ELSE second

\* createMcpLogger(prefix, logToFile) called in a process whose stdout is or
\* is not a terminal and whose MCP_MODE variable is env: the function reads
\* neither, and builds a Logger with level error and mcpMode true.
createMcpLogger(prefix, second, isTTY, env) ==
    ConstructorAs("createMcpLogger", <<prefix, second, isTTY, env>>,
                  "error", TRUE, prefix, AsLogToFile(second))

\* A Logger made by createMcpLogger, in every environment.
InitFactory ==
    \E prefix \in Prefixes, second \in SecondArgs, isTTY \in BOOLEAN, env \in McpModeEnv :
        createMcpLogger(prefix, second, isTTY, env)

\* The Logger made by createMcpLogger is logged to and reconfigured.
NextFactory ==
    \/ \E enabled \in BOOLEAN : setMcpMode(enabled)
    \/ \E message \in Messages, args \in ArgLists :
          clock < MaxConsoleCalls /\ warn(message, args)
    \/ \E message \in Messages, args \in ArgLists :
          clock < MaxConsoleCalls /\ error(message, args)
    \/ \E message \in Messages, args \in ArgLists : mcpError(message, args)

SpecFactory == InitFactory /\ [][NextFactory]_vars

\* The number of extra arguments of a call whose line is examined.
MaxArgs == 2

\* The number of lines written while the format is examined.
MaxLines == 1

\* The extra arguments of those calls: a string, an object, undefined.
FormatArgs == {StrArg, ObjArg, UndefinedArg}

\* Every argument list of at most MaxArgs of them.
FormatArgLists == UNION {[1..n -> FormatArgs] : n \in 0..MaxArgs}

\* A Logger with an open file sink that lets every level through.
InitFormat ==
    \E mcpMode \in BOOLEAN, prefix \in Prefixes :
        Constructor("debug", mcpMode, prefix, "a.log")

\* The lines the severity methods write: each method, with every argument
\* list, with and without prefix.
NextFormat ==
    \/ \E prefix \in Prefixes : setPrefix(prefix)
    \/ \E message \in Messages, args \in FormatArgLists :
          clock < MaxLines /\ debug(message, args)
    \/ \E message \in Messages, args \in FormatArgLists :
          clock < MaxLines /\ info(message, args)
    \/ \E message \in Messages, args \in FormatArgLists :
          clock < MaxLines /\ warn(message, args)
    \/ \E message \in Messages, args \in FormatArgLists :
          clock < MaxLines /\ error(message, args)
    \/ \E message \in Messages, args \in FormatArgLists :
          clock < MaxLines /\ log(message, args)

SpecFormat == InitFormat /\ [][NextFormat]_vars

\* The number of records a framework hands its transport.
MaxRecords == 1

\* Pino's numeric levels, on and around the boundaries of the scale.
PinoNumbers == {10, 20, 29, 30, 39, 40, 49, 50, 59, 60}

\* Pino's level names, and one it does not have.
PinoNames == {"fatal", "error", "warn", "info", "debug", "trace", "bogus"}

\* The level of a record handed to transform.
PinoLevels ==
    {NumLevel(n) : n \in PinoNumbers} \cup {NameLevel(s) : s \in PinoNames}
        \cup {UndefinedLevel}

\* Winston's level names, and one it does not have.
WinstonNames == {"error", "warn", "info", "http", "verbose", "debug", "silly", "bogus"}

\* The level of a record handed to log.
WinstonLevels == {NameLevel(s) : s \in WinstonNames} \cup {UndefinedLevel}

\* The fields, other than level, a Pino record may carry.
PinoFields == {"msg", "time", "hostname", "pid", "v", "userId", "self", "Symbol(level)"}

\* The fields, other than level, a Winston record may carry.
WinstonFields == {"message", "timestamp", "splat", "userId", "pid", "Symbol(level)"}

\* A record: its level and the names of its other fields.
Record(level, fields) == [level |-> level, fields |-> fields]

\* What transform is handed: records as objects, records as JSON text, and
\* text that is not JSON.
PinoChunks ==
    {[kind |-> "object", valid |-> TRUE, record |-> Record(l, f)] :
        l \in PinoLevels, f \in SUBSET PinoFields}
    \cup {[kind |-> "string", valid |-> TRUE, record |-> Record(l, f)] :
        l \in PinoLevels, f \in SUBSET {"msg", "userId"}}
    \cup {[kind |-> "string", valid |-> FALSE, record |-> Record(UndefinedLevel, {})]}

\* What log is handed.
WinstonEntries == {Record(l, f) : l \in WinstonLevels, f \in SUBSET WinstonFields}

\* The level option of a transport: absent, debug or warn.
OptionLevels == {UndefinedLevel, NameLevel("debug"), NameLevel("warn")}

\* A Pino transport, with or without a log file, or a Winston transport.
InitAdapter ==
    \E level \in OptionLevels, mcpMode \in BOOLEAN :
        \/ \E logToFile \in {NoPath, "a.log"} : PinoTransport(level, mcpMode, "", logToFile)
        \/ WinstonTransport(level, mcpMode, "", NoPath)

\* The frameworks hand records to their transport; the stream writes.
NextAdapter ==
    \/ \E chunk \in PinoChunks : received.count < MaxRecords /\ transform(chunk)
    \/ \E entry \in WinstonEntries : received.count < MaxRecords /\ WinstonLog(entry)
    \/ \E i \in 1..Len(streams) : Flush(i)

SpecAdapter == InitAdapter /\ [][NextAdapter]_vars

\* The number of payloads handed to one Pino transport.
MaxChunks == 2

\* Payloads of every kind: text that is not JSON, null, JSON text of a
\* record, a record, a record whose metadata holds the record itself.
ParseChunks ==
    {[kind |-> "string", valid |-> FALSE, record |-> Record(UndefinedLevel, {})],
     [kind |-> "null", valid |-> FALSE, record |-> Record(UndefinedLevel, {})],
     [kind |-> "string", valid |-> TRUE, record |-> Record(NumLevel(40), {"msg"})],
     [kind |-> "object", valid |-> TRUE, record |-> Record(NameLevel("debug"), {"msg", "userId"})],
     [kind |-> "object", valid |-> TRUE, record |-> Record(NameLevel("info"), {"msg", "self"})]}

\* A Pino transport, with or without a log file.
InitParse ==
    \E level \in OptionLevels, mcpMode \in BOOLEAN, logToFile \in {NoPath, "a.log"} :
        PinoTransport(level, mcpMode, "", logToFile)

\* Pino hands payloads to the transport; the stream writes.
NextParse ==
    \/ \E chunk \in ParseChunks : received.count < MaxChunks /\ transform(chunk)
    \/ \E i \in 1..Len(streams) : Flush(i)

SpecParse == InitParse /\ [][NextParse]_vars

\* A transport of either kind, constructed with each level of the Logger's
\* scale as its level option.
InitLevels ==
    \E level \in LogLevel, mcpMode \in BOOLEAN :
        \/ \E logToFile \in {NoPath, "a.log"} :
              PinoTransport(NameLevel(level), mcpMode, "", logToFile)
        \/ WinstonTransport(NameLevel(level), mcpMode, "", NoPath)

\* Records of every level of the Logger's scale, handed to the transport.
NextLevels ==
    \/ \E l \in {"debug", "info", "warn", "error"} :
          /\ received.count < MaxChunks
          /\ transform([kind |-> "object", valid |-> TRUE,
                        record |-> Record(NameLevel(l), {"msg"})])
    \/ \E l \in {"debug", "info", "warn", "error"} :
          /\ received.count < MaxChunks
          /\ WinstonLog(Record(NameLevel(l), {"message"}))
    \/ \E i \in 1..Len(streams) : Flush(i)

SpecLevels == InitLevels /\ [][NextLevels]_vars

\* The records handed to a Pino transport and its child.
FamilyChunks ==
    {[kind |-> "object", valid |-> TRUE, record |-> Record(NumLevel(30), {"msg"})],
     [kind |-> "string", valid |-> TRUE, record |-> Record(NumLevel(50), {"msg", "userId"})]}

\* A Pino transport constructed with or without logToFile.
InitPinoFamily ==
    \E mcpMode \in BOOLEAN, logToFile \in {NoPath, "a.log"} :
        PinoTransport(UndefinedLevel, mcpMode, "", logToFile)

\* A Pino transport and the child transport derived from it: each is handed
\* records and closed by a caller that awaits close.
NextPinoFamily ==
    \/ Idle /\ others = << >> /\ PinoChild("A")
    \/ \E k \in 1..Len(others) : Idle /\ Turn(k)
    \/ \E chunk \in FamilyChunks : Idle /\ received.count < MaxChunks /\ transform(chunk)
    \/ Idle /\ TransportClose
    \/ \E i \in 1..Len(streams) : Flush(i)
    \/ \E i \in 1..Len(streams) : Finish(i)

SpecPinoFamily == InitPinoFamily /\ [][NextPinoFamily]_vars

\* The number of close and setLogFile calls whose promise is pending at once.
MaxPending == 2

\* The number of streams a Logger opens under overlapping calls.
MaxOverlapStreams == 3

\* The setLogFile calls that have not opened their stream yet.
PendingOpens == Cardinality({k \in 1..Len(tasks) : tasks[k].op = "setLogFile"})

\* A Logger without a file sink, with one, or with one whose file cannot be
\* opened.
InitOverlap ==
    \E logToFile \in {NoPath, "a.log", ReadOnlyPath} :
        Constructor("info", FALSE, "", logToFile)

\* A caller that does not await: it calls close and setLogFile while earlier
\* calls are pending, and logs in between; continuations run and the streams
\* make progress, finish or fail.
NextOverlap ==
    \/ \E message \in Messages : clock < MaxCalls /\ info(message, << >>)
    \/ Len(tasks) < MaxPending /\ close("close")
    \/ \E filePath \in GoodPaths :
          /\ Len(tasks) < MaxPending
          /\ Len(streams) + PendingOpens < MaxOverlapStreams
          /\ setLogFile(filePath)
    \/ Resume
    \/ \E i \in 1..Len(streams) : Flush(i)
    \/ \E i \in 1..Len(streams) : Finish(i)
    \/ \E i \in 1..Len(streams) : StreamError(i)

SpecOverlap == InitOverlap /\ [][NextOverlap]_vars

\* A stream whose end() was called writes, finishes or fails.
EndProgress(i) ==
    /\ i <= Len(streams)
    /\ streams[i].st = "ending"
    /\ (Flush(i) \/ Finish(i) \/ StreamError(i))

\* The same caller, where continuations run and every stream whose end() was
\* called eventually finishes or fails.
SpecOverlapFair ==
    /\ SpecOverlap
    /\ WF_vars(Resume)
    /\ \A i \in 1..MaxOverlapStreams : WF_vars(EndProgress(i))

\* The number of severity calls made on two Loggers that share a path.
MaxSharedCalls == 3

\* A Logger with a file sink on a.log.
InitShared == Constructor("info", FALSE, "", "a.log")

\* A second, independent Logger on the same path; the caller logs to either
\* in any interleaving, and closes each with an awaited close.
NextShared ==
    \/ Idle /\ others = << >> /\ NewLogger("info", FALSE, "P", "a.log")
    \/ \E k \in 1..Len(others) : Idle /\ Turn(k)
    \/ \E message \in Messages, args \in SinkArgLists :
          Idle /\ clock < MaxSharedCalls /\ info(message, args)
    \/ Idle /\ close("close")
    \/ \E i \in 1..Len(streams) : Flush(i)
    \/ \E i \in 1..Len(streams) : Finish(i)

SpecShared == InitShared /\ [][NextShared]_vars

\* The number of records handed to one Winston transport.
MaxEntries == 2

\* Records with and without metadata, at three levels.
FileEntries ==
    {Record(NameLevel(l), f) : l \in {"debug", "info", "error"},
                               f \in {{"message"}, {"message", "userId"}}}

\* A Winston transport constructed with or without the logToFile option.
InitWinston ==
    \E level \in OptionLevels, mcpMode \in BOOLEAN, logToFile \in {NoPath, "a.log"} :
        WinstonTransport(level, mcpMode, "", logToFile)

\* Winston hands records to the transport; the program calls setLogFile and
\* close on it.
NextWinston ==
    \/ \E entry \in FileEntries : received.count < MaxEntries /\ WinstonLog(entry)
    \/ \E filePath \in GoodPaths : WinstonSetLogFile(filePath)
    \/ WinstonClose

SpecWinston == InitWinston /\ [][NextWinston]_vars

\* The number of Loggers derived from a root in a chain of child() calls.
MaxChildren == 2

\* The names children are given.
ChildNames == {"A", "B"}

\* A root Logger without a file sink, with or without a prefix, in any mode.
InitChild ==
    \E level \in {"info", "error"}, mcpMode \in BOOLEAN, prefix \in Prefixes :
        Constructor(level, mcpMode, prefix, NoPath)

\* Chains of child Loggers: the caller derives children and grandchildren,
\* resets prefixes, and logs through any of them.
NextChild ==
    \/ \E prefix \in ChildNames : Len(others) < MaxChildren /\ child(prefix)
    \/ \E k \in 1..Len(others) : Turn(k)
    \/ \E prefix \in Prefixes : setPrefix(prefix)
    \/ \E message \in Messages : info(message, << >>)
    \/ \E message \in Messages : mcpError(message, << >>)

SpecChild == InitChild /\ [][NextChild]_vars

\* The number of children in a family that shares a log file.
MaxFamily == 1

\* The readings of the clock in a family of Loggers.
MaxFamilyCalls == 2

\* A root Logger with or without a prefix, with or without a file sink.
InitFamily ==
    \E prefix \in Prefixes, logToFile \in {NoPath, "a.log"} :
        Constructor("info", FALSE, prefix, logToFile)

\* A parent and its child: each is reconfigured, logged to, switched to
\* another file and closed by a caller that awaits setLogFile and close.
NextFamily ==
    \/ \E prefix \in ChildNames : Idle /\ Len(others) < MaxFamily /\ child(prefix)
    \/ \E k \in 1..Len(others) : Idle /\ Turn(k)
    \/ Idle /\ setLevel("error")
    \/ Idle /\ setMcpMode(TRUE)
    \/ Idle /\ setPrefix("P")
    \/ \E message \in Messages :
          Idle /\ clock < MaxFamilyCalls /\ info(message, << >>)
    \/ Idle /\ close("close")
    \/ Idle /\ setLogFile("b.log")
    \/ Resume
    \/ \E i \in 1..Len(streams) : Flush(i)
    \/ \E i \in 1..Len(streams) : Finish(i)

SpecFamily == InitFamily /\ [][NextFamily]_vars

(* ------------------------------ claims -------------------------------- *)

\* The four severity methods.
SeverityOps == {"debug", "info", "warn", "error"}

\* Every public logging method but mcpError.
ConsoleMethods ==
    SeverityOps \cup
    {"log", "trace", "table", "group", "groupCollapsed", "groupEnd", "time",
     "timeEnd", "timeLog", "count", "countReset", "assert", "clear", "dir", "dirxml"}

\* The text a message is rendered to under prefix p, as the specification
\* states it: the message alone, or prefix, one space, message.
Rendered(p, message) == IF p = "" THEN message ELSE p \o " " \o message

\* C1: a call to a severity method invokes a console primitive if and only
\* if MCP mode is off, the method's level is at or above the threshold and
\* the threshold is not silent, for the configuration in force at the call.
C1_ConsoleIffModeOffAndLevelPasses ==
    last.op \in SeverityOps =>
        ((last.console # << >>) <=> (~config.mcpMode /\ LevelPasses(last.level)))

\* C1, for the calls that return: the gate is as claimed whenever no
\* exception leaves the call.
C1_GateOfReturningCalls ==
    (last.op \in SeverityOps /\ ~last.threw) =>
        ((last.console # << >>) <=> (~config.mcpMode /\ LevelPasses(last.level)))

\* C2: while MCP mode is on, no logging method other than mcpError invokes a
\* console primitive, with or without a file path configured.
C2_McpModeSilencesEveryMethod ==
    (config.mcpMode /\ last.op \in ConsoleMethods) => last.console = << >>

\* C2, for the severity methods and log alone: these stay silent in MCP mode.
C2_McpModeSilencesSeverityMethods ==
    (config.mcpMode /\ last.op \in SeverityOps \cup {"log"}) => last.console = << >>

\* C3: with an active file sink, a call to a severity method hands a line to
\* the file if and only if its level is at or above the threshold and the
\* threshold is not silent, whatever the MCP mode.
C3_FileIffLevelPasses ==
    (last.op \in SeverityOps /\ SinkActive) =>
        ((last.lines # << >>) <=> LevelPasses(last.level))

\* C3, for the calls that return.
C3_FileGateOfReturningCalls ==
    (last.op \in SeverityOps /\ SinkActive /\ ~last.threw) =>
        ((Len(last.lines) = 1) <=> LevelPasses(last.level))

\* C4: mcpError makes exactly one console.error call, whose text is the
\* message under the prefix and whose further arguments are the caller's, in
\* every configuration and sink state; it hands nothing to the file sink.
C4_McpErrorAlwaysOnSafeChannel ==
    /\ [](last.op = "mcpError" =>
            /\ last.console =
                 <<ConsoleCall("error",
                               <<TextArg(Rendered(config.prefix, last.input[1]))>>
                                   \o last.input[2])>>
            /\ last.lines = << >>
            /\ ~last.threw)
    /\ [][last'.op = "mcpError" => UNCHANGED <<streams, files, fileStream>>]_vars

\* C4's case: mcpError under threshold silent, MCP mode on, a prefix and an
\* active sink.
C4_Witness ==
    /\ last.op = "mcpError"
    /\ config.level = "silent" /\ config.mcpMode /\ config.prefix = "P"
    /\ SinkActive

\* C5: no logging call throws.
C5_NoLoggingCallThrows == ~last.threw

\* The lines stream i was handed are all in its file, once each and in the
\* order of the calls.
InFileInOrder(i) ==
    LET s == streams[i]
        Mine(l) == \E k \in 1..Len(s.written) : s.written[k] = l
    IN SelectSeq(files[s.path], Mine) = s.written

\* Every call on console.error.
OnSafeChannel(calls) ==
    calls # << >> /\ \A k \in 1..Len(calls) : calls[k].channel = "error"

\* The sink was pointed at a path that could not be opened, and the failure
\* has happened: no stream is held, or the held one has failed.
OpenFailed ==
    /\ config.logToFile \in {InvalidPath, ReadOnlyPath}
    /\ fileStream = NoStream \/ destroyed(streams[fileStream])

EndSettled(i) == streams[i].ended /\ ~Awaited(i)

AllSettled ==
    /\ tasks = << >> /\ fileStream = NoStream
    /\ \A i \in 1..Len(streams) : streams[i].st = "closed"

\* The timestamps of a sequence of lines or accepted calls.
Timestamps(seq) == [k \in 1..Len(seq) |-> seq[k].timestamp]

\* The accepted calls whose sink was on path p, in call order.
AcceptedFor(p) ==
    LET OnPath(e) == streams[e.stream].path = p
    IN SelectSeq(accepted, OnPath)

\* The elements of a sequence.
Range(seq) == {seq[k] : k \in 1..Len(seq)}

\* C9: after N accepted calls on file A, an awaited setLogFile(B), M accepted
\* calls and an awaited close, each file holds exactly the lines of the calls
\* accepted while the sink was on it, and none of the other batch.
C9_EachFileHoldsExactlyItsBatch ==
    (AllSettled /\ Len(streams) >= 2) =>
        \A p \in GoodPaths :
            /\ Range(Timestamps(files[p])) = Range(Timestamps(AcceptedFor(p)))
            /\ Len(files[p]) = Len(AcceptedFor(p))

\* C10: K severity calls at or above the threshold on an active sink, then an
\* awaited close, leave exactly K lines in the file, in call order.
C10_FileHoldsEveryAcceptedCallInOrder ==
    (AllSettled /\ Len(streams) = 1) =>
        Timestamps(files[streams[1].path]) = Timestamps(accepted)

\* The accepted calls that returned.
Returned(seq) ==
    LET NoThrow(e) == ~e.threw
    IN SelectSeq(seq, NoThrow)

\* C9 and C10, for the calls that returned: once everything has settled, each
\* file holds exactly the lines of the accepted calls that returned while the
\* sink was on it, in call order.
FileHoldsEveryReturnedCallInOrder ==
    AllSettled =>
        \A p \in GoodPaths :
            Timestamps(files[p]) = Timestamps(Returned(AcceptedFor(p)))

\* What the streams on path p were handed, in creation order.
RECURSIVE WrittenTo(_, _)
WrittenTo(p, n) ==
    IF n = 0 THEN << >>
    ELSE WrittenTo(p, n - 1) \o (IF streams[n].path = p THEN streams[n].written ELSE << >>)

\* C9 and C10, for what was handed to the streams: once everything has
\* settled, each file holds exactly the lines its streams were handed, in
\* order, and every such line is that of an accepted call.
SinkDeliversWhatItWasHanded ==
    /\ AllSettled => \A p \in Paths : files[p] = WrittenTo(p, Len(streams))
    /\ \A i \in 1..Len(streams) : \A k \in 1..Len(streams[i].written) :
          streams[i].path \in GoodPaths =>
          \E e \in Range(accepted) :
              e.timestamp = streams[i].written[k].timestamp /\ e.stream = i

\* C11: when the open stream of an active sink reports an error, the error
\* is reported on console.error and no exception reaches a caller; the failed
\* stream is never written to or reopened; the Logger keeps holding no live
\* stream until setLogFile resumes; and the lines written after that go to
\* the stream of the path setLogFile was given.
C11_StreamErrorDisablesSinkUntilSetLogFile ==
    /\ [](last.op = "streamError" =>
            /\ OnSafeChannel(last.console) /\ ~last.threw
            /\ streams[last.stream].st = "errored")
    /\ [][\A i \in 1..Len(streams) :
            streams[i].st = "errored" => streams'[i] = streams[i]]_vars
    /\ [][(fileStream # NoStream /\ streams[fileStream].st = "errored"
           /\ last'.op # "setLogFile.resumed") =>
            (fileStream' = fileStream /\ Len(streams') = Len(streams))]_vars
    /\ [](last.op \in SeverityOps /\ last.lines # << >> =>
            /\ fileStream # NoStream
            /\ streams[fileStream].path = config.logToFile
            /\ ~destroyed(streams[fileStream])
            /\ streams[fileStream].written[Len(streams[fileStream].written)] = last.lines[1])

\* C11's case: the stream of an active sink failed before any close, then
\* setLogFile pointed the sink at the other file and an info call wrote there.
C11_Witness ==
    /\ Len(streams) = 2
    /\ streams[1].st = "errored" /\ streams[1].path \in GoodPaths /\ ~streams[1].ended
    /\ streams[2].path \in GoodPaths /\ streams[2].path # streams[1].path
    /\ fileStream = 2
    /\ last.op = "info" /\ last.lines # << >>

\* Every Logger instance: the one addressed and the others.
Family ==
    {Instance(config, fileStream, me)} \cup {others[k] : k \in 1..Len(others)}

\* Names joined with ':'.
RECURSIVE ColonJoin(_)
ColonJoin(names) ==
    IF Len(names) = 1 THEN names[1]
    ELSE names[1] \o ":" \o ColonJoin(Tail(names))

\* The prefix of a Logger derived through the chain of child names from a
\* Logger whose prefix was base: 'P:A:B', and 'C' with no leading ':' when
\* base is empty.
ChainPrefix(base, names) ==
    IF names = << >> THEN base
    ELSE IF base = "" THEN ColonJoin(names)
    ELSE base \o ":" \o ColonJoin(names)

\* C12: the prefix of every Logger is the prefix its ancestor was last given,
\* followed by the names of the child() calls since, joined with ':', without
\* a leading ':' when that prefix is empty, whatever the level and the mode;
\* and that is the prefix info and mcpError render.
C12_ChildPrefixesComposeWithColon ==
    /\ \A l \in Family : l.config.prefix = ChainPrefix(l.me.base, l.me.names)
    /\ (last.op \in {"info", "mcpError"} /\ last.console # << >>) =>
          last.console[1].argv[1].string =
              Rendered(ChainPrefix(me.base, me.names), last.input[1])

\* C12's case: the grandchild B of child A of a Logger with prefix P logs,
\* and renders the prefix P:A:B.
C12_Witness ==
    /\ me.base = "P" /\ me.names = <<"A", "B">>
    /\ config.prefix = "P:A:B"
    /\ last.op = "info" /\ last.console # << >>
    /\ last.console[1].argv[1].string = "P:A:B m"

\* The calls a caller makes on the Logger it addresses.
CallerOps ==
    {"setLevel", "setMcpMode", "setPrefix", "setLogFile", "setLogFile.resumed", "close"}
        \cup SeverityOps

\* C13: child() gives the child the parent's level, MCP mode and file path as
\* they are at the call and leaves the parent as it was; afterwards a setter,
\* setLogFile, close or logging call on one Logger changes neither the
\* configuration, nor the stream handle, nor the stream of any other Logger.
C13_ChildCopiesConfigAndIsIndependent ==
    /\ [][last'.op = "child" =>
            LET c == others'[Len(others')]
            IN /\ c.config.level = config.level
               /\ c.config.mcpMode = config.mcpMode
               /\ c.config.logToFile = config.logToFile
               /\ config' = config /\ fileStream' = fileStream
               /\ \A k \in 1..Len(others) : others'[k] = others[k]]_vars
    /\ [][last'.op \in CallerOps =>
            /\ others' = others
            /\ \A k \in 1..Len(others) :
                  others[k].fileStream # NoStream =>
                      streams'[others[k].fileStream] = streams[others[k].fileStream]]_vars
    /\ [][last'.op = "turn" => Family' = Family]_vars

\* C13's case: after child(), the parent was given threshold error and MCP
\* mode and was closed; the child still has threshold info and MCP mode off and its
\* own open stream.
C13_Witness ==
    /\ me.id = 1 /\ Len(others) = 1
    /\ config.level = "error" /\ config.mcpMode /\ fileStream = NoStream
    /\ config.logToFile = "a.log"
    /\ others[1].config.level = "info" /\ ~others[1].config.mcpMode
    /\ others[1].config.logToFile = "a.log"
    /\ others[1].fileStream # NoStream /\ streams[others[1].fileStream].st = "open"

\* C14: no two Loggers hold the same stream; child() of a Logger with an
\* active sink opens a new stream on the same path for the child; close on
\* one Logger, and the finish of its stream, leave the streams of the others
\* as they are; and a Logger whose own stream is open keeps writing a line
\* for every call at or above its threshold, whoever else has closed.
C14_ChildOwnsItsOwnStream ==
    /\ [](\A x \in Family, y \in Family :
            (x.me.id # y.me.id /\ x.fileStream # NoStream) => x.fileStream # y.fileStream)
    /\ [][(last'.op = "child" /\ SinkActive) =>
            LET c == others'[Len(others')]
            IN /\ c.fileStream = Len(streams) + 1
               /\ Len(streams') = Len(streams) + 1
               /\ streams'[c.fileStream].path = streams[fileStream].path
               /\ streams'[c.fileStream].st = "open"
               /\ streams'[fileStream] = streams[fileStream]]_vars
    /\ [][last'.op \in {"close", "finish"} =>
            \A k \in 1..Len(others) :
                others[k].fileStream # NoStream =>
                    streams'[others[k].fileStream] = streams[others[k].fileStream]]_vars
    /\ []((/\ last.op \in SeverityOps /\ ~last.threw /\ LevelPasses(last.level)
           /\ fileStream # NoStream /\ streams[fileStream].st = "open") =>
            /\ last.lines # << >>
            /\ streams[fileStream].written[Len(streams[fileStream].written)] = last.lines[1])

\* C14's case: the parent's stream was closed, and the child then wrote a
\* line to its own stream on the same path.
C14_Witness ==
    /\ me.id = 2 /\ fileStream = 2
    /\ streams[1].st = "closed" /\ streams[1].path = streams[2].path
    /\ others[1].fileStream = NoStream
    /\ streams[2].st = "open"
    /\ last.op = "info" /\ last.lines # << >>

\* The same with the roles exchanged: the child's stream was closed, and the
\* parent then wrote a line to its own.
ParentWritesAfterChildClosed ==
    /\ Len(others) = 1 /\ me.id = 1 /\ fileStream = 1 /\ Len(streams) = 2
    /\ streams[2].st = "closed" /\ others[1].fileStream = NoStream
    /\ streams[1].st = "open"
    /\ last.op = "info" /\ last.lines # << >>

\* The console primitive of each severity method.
ChannelOf(op) ==
    CASE op = "debug" -> "debug"
      [] op = "warn"  -> "warn"
      [] op \in {"info", "log", "error"} -> "error"

\* C15: a severity method invokes at most one console primitive, and only its
\* own: console.debug for debug, console.warn for warn, console.error for
\* info, log and error. With threshold warn, MCP mode off and no extra
\* arguments, debug puts nothing on the console, warn exactly its message on
\* console.warn and error exactly its message on console.error.
C15_EachSeverityMethodHasItsChannel ==
    /\ last.op \in SeverityOps \cup {"log"} =>
          /\ Len(last.console) <= 1
          /\ \A k \in 1..Len(last.console) : last.console[k].channel = ChannelOf(last.op)
    /\ (/\ last.op \in {"debug", "warn", "error"} /\ last.input[2] = << >>
        /\ config.level = "warn" /\ ~config.mcpMode) =>
          IF last.op = "debug" THEN last.console = << >>
          ELSE last.console =
                  <<ConsoleCall(ChannelOf(last.op),
                                <<TextArg(Rendered(config.prefix, last.input[1]))>>)>>

\* C15's case: with threshold warn, warn('m') has put its message on
\* console.warn.
C15_Witness ==
    /\ config.level = "warn" /\ ~config.mcpMode
    /\ last.op = "warn" /\ last.input[2] = << >>
    /\ Len(last.console) = 1 /\ last.console[1].channel = "warn"

\* C16: what a severity method or mcpError hands to its console primitive is
\* the message alone when the prefix is empty, the prefix, one space and the
\* message otherwise, with no timestamp and no level label, followed by the
\* extra arguments as they were passed, and by nothing when there are none.
C16_ConsoleTextIsPrefixedMessageThenArgs ==
    (last.op \in SeverityOps \cup {"log", "mcpError"} /\ last.console # << >>) =>
        /\ Len(last.console) = 1
        /\ last.console[1].argv =
              <<TextArg(Rendered(config.prefix, last.input[1]))>> \o last.input[2]
        /\ Len(last.console[1].argv) = 1 + Len(last.input[2])

\* C16's case: error('m', object) on a Logger with prefix P has handed
\* 'P m' and the object itself to console.error.
C16_Witness ==
    /\ config.prefix = "P"
    /\ last.op = "error" /\ last.input = <<"m", <<ObjArg>>>>
    /\ last.console = <<ConsoleCall("error", <<TextArg("P m"), ObjArg>>)>>

\* The same without a prefix and without extra arguments: the text is the
\* message, with no leading space, and nothing follows it.
BareMessageReachesConsole ==
    /\ config.prefix = ""
    /\ last.op = "warn" /\ last.input = <<"m", << >> >>
    /\ last.console = <<ConsoleCall("warn", <<TextArg("m")>>)>>

\* The level label of a line.
Label(level) ==
    CASE level = "debug" -> "DEBUG"
      [] level = "info"  -> "INFO"
      [] level = "warn"  -> "WARN"
      [] level = "error" -> "ERROR"

\* An extra argument as the line shows it: compact JSON for an object, the
\* string form for anything else.
Shown(arg) == IF arg.typeof = "object" THEN arg.json ELSE arg.string

\* The extra arguments as the line shows them, each after a single space.
RECURSIVE ArgsText(_)
ArgsText(args) ==
    IF args = << >> THEN ""
    ELSE " " \o Shown(Head(args)) \o ArgsText(Tail(args))

\* C17: a severity call that writes to the file writes exactly one line, with
\* the timestamp of the call, the level in upper case, ': ', the prefixed
\* message, each extra argument after a single space (objects as compact
\* JSON, the others in string form) and a newline; nothing follows the
\* message when there are no extra arguments, and the message follows
\* 'LEVEL: ' directly when the prefix is empty.
C17_FileLineFormat ==
    (last.op \in SeverityOps \cup {"log"} /\ last.lines # << >>) =>
        /\ Len(last.lines) = 1
        /\ last.lines[1].timestamp = clock
        /\ last.lines[1].text =
              Label(last.level) \o ": " \o Rendered(config.prefix, last.input[1])
                  \o ArgsText(last.input[2]) \o "\n"

\* C17's case: warn('m', object, string) on a Logger with prefix P wrote
\* 'WARN: P m {"k":1} x'.
C17_Witness ==
    /\ last.op = "warn" /\ config.prefix = "P"
    /\ last.input = <<"m", <<ObjArg, StrArg>>>>
    /\ Len(last.lines) = 1
    /\ last.lines[1].text = "WARN: P m {\"k\":1} x\n"

\* Without prefix and without extra arguments the line is 'INFO: m'.
BareLineIsLevelAndMessage ==
    /\ last.op = "info" /\ config.prefix = "" /\ last.input = <<"m", << >> >>
    /\ Len(last.lines) = 1 /\ last.lines[1].text = "INFO: m\n"

\* createMcpLogger was told not to use MCP mode: by a second argument false,
\* or by MCP_MODE = 'false' in the environment.
ExplicitlyDisabled(input) == input[2] = "false" \/ input[4] = "false"

\* C18: the Logger createMcpLogger returns is in MCP mode when stdout is no
\* terminal, when MCP_MODE is set, or when nothing says otherwise, and has
\* MCP mode off when MCP mode was explicitly disabled (second argument false,
\* or MCP_MODE = 'false'), so that its error calls reach the console.
C18_FactorySelectsModeFromEnvironment ==
    /\ [](last.op = "createMcpLogger" =>
            IF ExplicitlyDisabled(last.input) THEN ~config.mcpMode ELSE config.mcpMode)
    /\ [][(last.op = "createMcpLogger" /\ ExplicitlyDisabled(last.input)
           /\ last'.op = "error" /\ ~last'.threw) => last'.console # << >>]_vars

\* What createMcpLogger does in every environment and for every second
\* argument: level error, MCP mode on, and a file sink only for a path.
FactoryAlwaysSelectsMcpMode ==
    last.op = "createMcpLogger" =>
        /\ config.mcpMode /\ config.level = "error"
        /\ config.logToFile = AsLogToFile(last.input[2])

\* The Logger level the claim gives a Pino level.
ClaimedPinoLevel(l) ==
    IF l.typeof = "number"
    THEN CASE l.n >= 50 -> "error"
           [] l.n >= 40 /\ l.n <= 49 -> "warn"
           [] l.n >= 30 /\ l.n <= 39 -> "info"
           [] l.n < 30 -> "debug"
    ELSE CASE l.typeof = "string" /\ l.s \in {"fatal", "error"} -> "error"
           [] l.typeof = "string" /\ l.s = "warn" -> "warn"
           [] l.typeof = "string" /\ l.s = "info" -> "info"
           [] l.typeof = "string" /\ l.s \in {"debug", "trace"} -> "debug"
           [] OTHER -> "info"

\* The Logger level the claim gives a Winston level.
ClaimedWinstonLevel(l) ==
    CASE l.typeof = "string" /\ l.s = "error" -> "error"
      [] l.typeof = "string" /\ l.s = "warn" -> "warn"
      [] l.typeof = "string" /\ l.s \in {"info", "http"} -> "info"
      [] l.typeof = "string" /\ l.s \in {"verbose", "debug", "silly"} -> "debug"
      [] OTHER -> "info"

\* An adapter has been handed a record (not text that fails to parse).
RecordReceived ==
    /\ received.adapter \in {"pino", "winston"} /\ received.calls # << >>
    /\ received.chunk.valid

\* C19: the adapter calls, for the record, the Logger method of the level
\* the claimed table gives the record's level (Pino names and numbers,
\* Winston names, info for an unknown or missing one), and no other method
\* with the record.
C19_AdapterDispatchesToMappedLevel ==
    RecordReceived =>
        /\ received.calls[1].op =
              IF received.adapter = "pino"
              THEN ClaimedPinoLevel(received.chunk.record.level)
              ELSE ClaimedWinstonLevel(received.chunk.record.level)
        /\ \A k \in 2..Len(received.calls) : received.calls[k].message = ParseFailure
        /\ (Len(received.calls) = 1 /\ last.op # "flush") => last.op = received.calls[1].op

\* C19's case: a Pino record with level 49 went to warn.
C19_Witness ==
    /\ RecordReceived /\ received.adapter = "pino"
    /\ received.chunk.record.level = NumLevel(49)
    /\ received.calls[1].op = "warn" /\ last.op = "warn"

\* A Winston record with level http went to info.
WinstonHttpGoesToInfo ==
    /\ RecordReceived /\ received.adapter = "winston"
    /\ received.chunk.record.level = NameLevel("http")
    /\ last.op = "info"

\* The fields of a record the claim calls framework-internal.
ClaimedInternal(adapter) ==
    IF adapter = "pino" THEN {"level", "msg", "time", "hostname", "pid", "v"}
    ELSE {"level", "message", "timestamp", "splat"}

\* What the adapter passed for the last record is the message and, of the
\* fields in remaining, one object, or nothing when there is none.
PassedOn(remaining) ==
    LET r == received.chunk.record
        field == IF received.adapter = "pino" THEN "msg" ELSE "message"
        c == received.calls[1]
    IN /\ c.message = IF field \in r.fields THEN "m" ELSE ""
       /\ IF remaining = {} THEN c.args = << >>
          ELSE /\ Len(c.args) = 1
               /\ c.args[1].typeof = "object"
               /\ c.args[1].keys = remaining
       /\ (Len(received.calls) = 1 /\ last.op # "flush") =>
             last.input = <<c.message, c.args>>

\* C20 as stated: the adapter passes the record's msg (Pino) or message
\* (Winston), or the empty string when the record has none, and after it
\* exactly one object holding the record's fields other than level, msg,
\* time, hostname, pid, v (Pino) or level, message, timestamp, splat
\* (Winston), or no argument at all when no such field remains.
C20_AdapterPassesMessageAndOneMetadataObject ==
    RecordReceived =>
        PassedOn(received.chunk.record.fields \ ClaimedInternal(received.adapter))

\* C20, amended: as above, where the fields whose name begins with 'Symbol('
\* are removed as well.
C20_AdapterPassesMessageAndCleanMetadata ==
    RecordReceived =>
        PassedOn({key \in received.chunk.record.fields \ ClaimedInternal(received.adapter) :
                     key \notin SymbolNamed})

\* C20's case: a Pino record with msg, time, pid, v, userId and a field named
\* 'Symbol(level)' was passed on as the message and an object holding userId
\* alone.
C20_Witness ==
    /\ RecordReceived /\ received.adapter = "pino"
    /\ received.chunk.record.fields = {"msg", "time", "pid", "v", "userId", "Symbol(level)"}
    /\ last.input = <<"m", <<MetaArg({"userId"})>>>>

\* A Winston record with nothing but message and timestamp was passed on as
\* the message alone.
WinstonBareRecordHasNoMetadata ==
    /\ RecordReceived /\ received.adapter = "winston"
    /\ received.chunk.record.fields = {"message", "timestamp"}
    /\ last.input = <<"m", << >> >>

\* C21: transform never leaves as an exception; for text that is not JSON,
\* and for null, it calls the Logger's error method with 'Failed to parse log
\* message' and the error caught, whose console output, if any, is on the
\* safe channel and appears whenever the mode and the level allow it; and a
\* record, also one that follows such a payload, goes to the method of its
\* level.
C21_TransformNeverThrowsOnMalformedInput ==
    (received.adapter = "pino" /\ received.count > 0 /\ last.op # "flush") =>
        /\ ~last.threw
        /\ ~received.chunk.valid =>
              /\ received.calls = <<Call("error", ParseFailure, <<ErrorArg>>)>>
              /\ last.op = "error" /\ last.input = <<ParseFailure, <<ErrorArg>>>>
              /\ \A k \in 1..Len(last.console) : last.console[k].channel = "error"
              /\ (~config.mcpMode /\ config.level # "silent") =>
                    last.console = <<ConsoleCall("error", <<TextArg(ParseFailure), ErrorArg>>)>>
        /\ (received.chunk.valid /\ received.failures < received.count
                /\ Len(received.calls) = 1) =>
              /\ received.calls[1].op = ClaimedPinoLevel(received.chunk.record.level)
              /\ last.op = received.calls[1].op
        /\ (received.chunk.valid /\ Len(received.calls) = 2) =>
              /\ received.calls[2] = Call("error", ParseFailure, <<ErrorArg>>)
              /\ last.op = "error"
              /\ \A k \in 1..Len(last.console) : last.console[k].channel = "error"

\* C21's case: after text that is not JSON, a record with level 40 was passed
\* to warn and reached the console.
C21_Witness ==
    /\ received.adapter = "pino" /\ received.count = 2 /\ received.failures = 1
    /\ received.chunk.valid /\ received.chunk.record.level = NumLevel(40)
    /\ last.op = "warn" /\ last.console # << >>

\* Text that is not JSON was reported on the console's error primitive.
ParseFailureReachesConsole ==
    /\ received.adapter = "pino" /\ received.chunk # << >>
    /\ received.chunk.kind = "string" /\ ~received.chunk.valid
    /\ last.console = <<ConsoleCall("error", <<TextArg(ParseFailure), ErrorArg>>)>>

\* C22: a Winston transport constructed with logToFile hands every record its
\* level accepts to the file stream as a line holding 'LEVEL: message', in
\* MCP mode too, and its setLogFile and close are calls of the Logger's, which
\* do not throw.
C22_WinstonTransportLogsToFile ==
    (received.adapter = "winston" /\ Truthy(received.options.logToFile)) =>
        /\ (last.op \in SeverityOps /\ LevelPasses(last.level)) =>
              /\ Len(last.lines) = 1
              /\ last.lines[1].text =
                    Label(last.level) \o ": " \o last.input[1] \o ArgsText(last.input[2]) \o "\n"
        /\ last.op \in {"setLogFile", "close"} => ~last.threw

\* A Winston transport never holds a stream and never writes a line, whatever
\* its logToFile option.
WinstonTransportHasNoFileSink ==
    received.adapter = "winston" =>
        /\ fileStream = NoStream /\ streams = << >> /\ config.logToFile = NoPath
        /\ last.lines = << >>
        /\ last.op \in {"setLogFile", "close"} => last.threw

\* Two Loggers had a sink on the same path, and both have been closed.
BothClosed ==
    /\ Len(streams) = 2 /\ streams[1].path = streams[2].path
    /\ tasks = << >>
    /\ \A i \in 1..2 : streams[i].st = "closed"

\* The calls in seq that stream i accepted, in call order.
AcceptedBy(seq, i) ==
    LET Mine(e) == e.stream = i
    IN SelectSeq(seq, Mine)

\* The lines of the file that stream i was handed, in file order.
InFileFrom(i) ==
    LET Mine(l) == \E k \in 1..Len(streams[i].written) : streams[i].written[k] = l
    IN SelectSeq(files[streams[i].path], Mine)

\* The file two closed Loggers shared holds exactly one whole line for each of
\* the calls in seq, those of each Logger in that Logger's call order.
SharedFileHolds(seq) ==
    LET f == files[streams[1].path]
    IN /\ Len(f) = Len(seq)
       /\ Range(Timestamps(f)) = Range(Timestamps(seq))
       /\ \A k \in 1..Len(f) :
             \E i \in 1..2 : f[k] \in Range(streams[i].written)
       /\ \A i \in 1..2 : Timestamps(InFileFrom(i)) = Timestamps(AcceptedBy(seq, i))

\* C23: once two Loggers with sinks on the same path have both been closed,
\* the file holds exactly the lines of the calls the two accepted, each line
\* whole, those of each Logger in that Logger's call order.
C23_SharedFileHoldsEveryAcceptedLine == BothClosed => SharedFileHolds(accepted)

\* C23 for the calls that returned: the file holds exactly their lines, each
\* whole, those of each Logger in that Logger's call order.
SharedFileHoldsEveryReturnedLine == BothClosed => SharedFileHolds(Returned(accepted))

\* Both Loggers wrote to the shared file, the second one's line first.
SharedFileIsInterleaved ==
    /\ BothClosed
    /\ Len(files[streams[1].path]) = 3
    /\ files[streams[1].path][1] \in Range(streams[2].written)
    /\ files[streams[1].path][2] \in Range(streams[1].written)

\* C24: once every close and setLogFile call has completed, every stream the
\* Logger opened is the one it holds or is no longer open; after a close that
\* has completed with nothing else pending, no stream is open.
C24_NoStreamIsLeftOpenUnheld ==
    tasks = << >> =>
        /\ \A i \in 1..Len(streams) : IsOpen(streams[i]) => i = fileStream
        /\ (last.op \in {"finish", "streamError", "close"} /\ last.resolved # << >>) =>
              \A i \in 1..Len(streams) : ~IsOpen(streams[i])

\* Two setLogFile calls overlapped: both have completed, the stream of the
\* first is open and the Logger holds the stream of the second.
OverlapLeavesStreamOpen ==
    /\ tasks = << >> /\ fileStream # NoStream
    /\ \E i \in 1..Len(streams) : i # fileStream /\ streams[i].st = "open"

\* The operations of the sink's life cycle.
SinkOps == {"close", "setLogFile", "setLogFile.resumed", "finish", "streamError"}

\* C25: no close or setLogFile call, and no continuation or callback of one,
\* throws; and whenever such calls are pending, they all complete.
C25_CloseAndSetLogFileAlwaysComplete ==
    /\ [](last.op \in SinkOps => ~last.threw)
    /\ (tasks # << >>) ~> (tasks = << >>)

\* C25's case: two close calls overlapped on a sink with a buffered line, and
\* both were resolved when the stream finished.
C25_Witness ==
    /\ last.op = "finish" /\ last.resolved = <<"close", "close">>
    /\ tasks = << >>
    /\ Len(streams[last.stream].written) >= 1

\* A setLogFile called while the stream was opening completed after the open
\* failed.
SetLogFileCompletesAfterFailedOpen ==
    /\ last.op = "setLogFile.resumed" /\ Len(streams) >= 2
    /\ streams[1].path = ReadOnlyPath /\ streams[1].st = "errored"
    /\ tasks = << >>

\* C26: no severity call writes to a stream whose end() has been called: no
\* stream is ever in error for a write after end, and no stream error is
\* reported on the console for one.
C26_NoWriteAfterEnd ==
    /\ \A i \in 1..Len(streams) : ~streams[i].writeAfterEnd
    /\ (last.op = "streamError" /\ last.console # << >>) =>
          ~streams[last.stream].writeAfterEnd

\* A severity call made between close() and its completion wrote to the
\* ending stream, and the stream's error was reported on the console.
WriteAfterEndIsReported ==
    /\ last.op = "streamError" /\ last.console = StreamErrorReport("a.log")
    /\ streams[last.stream].writeAfterEnd
    /\ Len(accepted) >= 1

\* C27: a Logger that holds no stream (its close has completed, and no
\* setLogFile has followed) writes no line, and a child derived from a Logger
\* whose sink is not active opens no stream.
C27_ClosedLoggerHasNoSinkNorItsChildren ==
    /\ (last.op \in SeverityOps /\ fileStream = NoStream) => last.lines = << >>
    /\ (last.op = "child" /\ ~SinkActive) => last.stream = NoStream

\* A Logger was closed, and the child derived from it afterwards opened a
\* stream on the path the parent was closed on.
ChildOfClosedLoggerOpensStream ==
    /\ last.op = "child" /\ fileStream = NoStream
    /\ Len(streams) = 2 /\ streams[1].st = "closed"
    /\ last.stream = 2 /\ streams[2].st = "open" /\ streams[2].path = streams[1].path

\* A Logger that holds no stream writes no line.
LoggerWithoutStreamWritesNothing ==
    (last.op \in SeverityOps /\ fileStream = NoStream) => last.lines = << >>

\* The parent transport and its child have both been closed.
BothTransportsClosed ==
    /\ received.adapter = "pino" /\ Truthy(received.options.logToFile)
    /\ Len(others) = 1 /\ tasks = << >>
    /\ fileStream = NoStream /\ others[1].fileStream = NoStream

\* C28: child() of a Pino transport constructed with logToFile opens exactly
\* one stream, the one the child's Logger holds; and once close has been
\* awaited on the parent and on the child, no stream is open.
C28_PinoChildOpensOneStream ==
    /\ [][(last'.op = "child" /\ received.adapter = "pino"
              /\ Truthy(received.options.logToFile)) =>
            /\ Len(streams') = Len(streams) + 1
            /\ others'[Len(others')].fileStream = Len(streams')]_vars
    /\ [](BothTransportsClosed => \A i \in 1..Len(streams) : ~IsOpen(streams[i]))

\* The parent transport and its child were closed, and the stream of the
\* Logger that the child transport's constructor made is still open.
PinoChildLeavesStreamOpen ==
    /\ BothTransportsClosed
    /\ Len(streams) = 3
    /\ streams[1].st = "closed" /\ streams[2].st = "closed" /\ streams[3].st = "open"

\* A transport constructed with a level of the Logger's scale as its option.
ConstructedWithLevel ==
    /\ received.adapter \in {"pino", "winston"}
    /\ received.options.level.typeof = "string"
    /\ received.options.level.s \in LogLevel

\* C29: the Logger of a transport constructed with level option L has
\* threshold L, and a transport constructed with level silent puts nothing on
\* the console or in the file for any record.
C29_TransportThresholdIsItsLevelOption ==
    ConstructedWithLevel =>
        /\ config.level = received.options.level.s
        /\ received.options.level.s = "silent" =>
              /\ last.console = << >> /\ last.lines = << >>
              /\ \A i \in 1..Len(streams) : streams[i].written = << >>

\* The Logger of a transport constructed with debug, info, warn or error has
\* that threshold; constructed with silent it has threshold info.
TransportThresholdIsInfoForSilent ==
    ConstructedWithLevel =>
        config.level = IF received.options.level.s = "silent" THEN "info"
                       ELSE received.options.level.s

\* A transport constructed with level silent put an error record on the
\* console.
SilentTransportEmits ==
    /\ ConstructedWithLevel /\ received.options.level.s = "silent"
    /\ received.count >= 1 /\ received.chunk.record.level = NameLevel("error")
    /\ last.op = "error" /\ last.console # << >>

(* ----------------------- the console-only Logger ---------------------- *)

\* The console-only Logger of SimpleMcpLogger.ts, as functions of its
\* configuration cfg = this.config: the setters and child() give the next
\* configuration, the logging methods the console primitives they invoke.

\* new Logger({level, mcpMode, prefix}) of the console-only Logger.
Simple_constructor(level, mcpMode, prefix) ==
    [level |-> level, mcpMode |-> mcpMode, prefix |-> prefix]

\* Logger.setMcpMode of the console-only Logger.
Simple_setMcpMode(cfg, enabled) == [cfg EXCEPT !.mcpMode = enabled]

\* Logger.setLevel of the console-only Logger.
Simple_setLevel(cfg, level) == [cfg EXCEPT !.level = level]

\* Logger.setPrefix of the console-only Logger.
Simple_setPrefix(cfg, prefix) == [cfg EXCEPT !.prefix = prefix]

\* Logger.shouldLog of the console-only Logger.
Simple_shouldLog(cfg, level) ==
    IF cfg.mcpMode
    THEN FALSE
    ELSE IF cfg.level = "silent"
         THEN FALSE
         ELSE indexOf(levels, level) >= indexOf(levels, cfg.level)

\* Logger.formatMessage of the console-only Logger.
Simple_formatMessage(cfg, message) ==
    IF Truthy(cfg.prefix) THEN cfg.prefix \o " " \o message ELSE message

\* The calls the console-only Logger makes under `if (this.shouldLog(level))`.
Simple_Gated(cfg, level, calls) == IF Simple_shouldLog(cfg, level) THEN calls ELSE << >>

\* label ? this.formatMessage(label) : undefined, in the console-only Logger.
Simple_timerLabel(cfg, label) ==
    IF Truthy(label) THEN TextArg(Simple_formatMessage(cfg, label)) ELSE UndefinedArg

\* Logger.debug of the console-only Logger.
Simple_debug(cfg, message, args) ==
    Simple_Gated(cfg, "debug",
        <<ConsoleCall("debug", <<TextArg(Simple_formatMessage(cfg, message))>> \o args)>>)

\* Logger.info of the console-only Logger.
Simple_info(cfg, message, args) ==
    Simple_Gated(cfg, "info",
        <<ConsoleCall("error", <<TextArg(Simple_formatMessage(cfg, message))>> \o args)>>)

\* Logger.warn of the console-only Logger.
Simple_warn(cfg, message, args) ==
    Simple_Gated(cfg, "warn",
        <<ConsoleCall("warn", <<TextArg(Simple_formatMessage(cfg, message))>> \o args)>>)

\* Logger.error of the console-only Logger.
Simple_error(cfg, message, args) ==
    Simple_Gated(cfg, "error",
        <<ConsoleCall("error", <<TextArg(Simple_formatMessage(cfg, message))>> \o args)>>)

\* Logger.log of the console-only Logger: this.info(message, ...args).
Simple_log(cfg, message, args) == Simple_info(cfg, message, args)

\* Logger.trace of the console-only Logger.
Simple_trace(cfg, message, args) ==
    Simple_Gated(cfg, "debug",
        IF Truthy(message)
        THEN <<ConsoleCall("trace", <<TextArg(Simple_formatMessage(cfg, message))>> \o args)>>
        ELSE <<ConsoleCall("trace", << >>)>>)

\* Logger.table of the console-only Logger.
Simple_table(cfg, data, columns) ==
    Simple_Gated(cfg, "info", <<ConsoleCall("table", <<data, columns>>)>>)

\* Logger.group of the console-only Logger.
Simple_group(cfg, label) ==
    Simple_Gated(cfg, "info",
        IF Truthy(label)
        THEN <<ConsoleCall("group", <<TextArg(Simple_formatMessage(cfg, label))>>)>>
        ELSE <<ConsoleCall("group", << >>)>>)

\* Logger.groupCollapsed of the console-only Logger.
Simple_groupCollapsed(cfg, label) ==
    Simple_Gated(cfg, "info",
        IF Truthy(label)
        THEN <<ConsoleCall("groupCollapsed", <<TextArg(Simple_formatMessage(cfg, label))>>)>>
        ELSE <<ConsoleCall("groupCollapsed", << >>)>>)

\* Logger.groupEnd of the console-only Logger.
Simple_groupEnd(cfg) == Simple_Gated(cfg, "info", <<ConsoleCall("groupEnd", << >>)>>)

\* Logger.time of the console-only Logger.
Simple_time(cfg, label) ==
    Simple_Gated(cfg, "debug", <<ConsoleCall("time", <<Simple_timerLabel(cfg, label)>>)>>)

\* Logger.timeEnd of the console-only Logger.
Simple_timeEnd(cfg, label) ==
    Simple_Gated(cfg, "debug", <<ConsoleCall("timeEnd", <<Simple_timerLabel(cfg, label)>>)>>)

\* Logger.timeLog of the console-only Logger.
Simple_timeLog(cfg, label, args) ==
    Simple_Gated(cfg, "debug",
        <<ConsoleCall("timeLog", <<Simple_timerLabel(cfg, label)>> \o args)>>)

\* Logger.count of the console-only Logger.
Simple_count(cfg, label) ==
    Simple_Gated(cfg, "debug", <<ConsoleCall("count", <<Simple_timerLabel(cfg, label)>>)>>)

\* Logger.countReset of the console-only Logger.
Simple_countReset(cfg, label) ==
    Simple_Gated(cfg, "debug",
        <<ConsoleCall("countReset", <<Simple_timerLabel(cfg, label)>>)>>)

\* Logger.assert of the console-only Logger.
Simple_assert(cfg, condition, message, args) ==
    Simple_Gated(cfg, "error",
        IF Truthy(message)
        THEN <<ConsoleCall("assert",
                 <<BoolArg(condition), TextArg(Simple_formatMessage(cfg, message))>> \o args)>>
        ELSE <<ConsoleCall("assert", <<BoolArg(condition)>> \o args)>>)

\* Logger.clear of the console-only Logger; hasClear: the host console
\* provides console.clear.
Simple_clear(cfg, hasClear) ==
    IF Simple_shouldLog(cfg, "debug") /\ hasClear
    THEN <<ConsoleCall("clear", << >>)>>
    ELSE << >>

\* Logger.dir of the console-only Logger.
Simple_dir(cfg, obj, options) ==
    Simple_Gated(cfg, "info", <<ConsoleCall("dir", <<obj, options>>)>>)

\* Logger.dirxml of the console-only Logger.
Simple_dirxml(cfg, obj) == Simple_Gated(cfg, "info", <<ConsoleCall("dirxml", <<obj>>)>>)

\* Logger.mcpError of the console-only Logger.
Simple_mcpError(cfg, message, args) ==
    <<ConsoleCall("error", <<TextArg(Simple_formatMessage(cfg, message))>> \o args)>>

\* Logger.child of the console-only Logger: the configuration of the new
\* Logger.
Simple_child(cfg, prefix) ==
    [cfg EXCEPT !.prefix = IF Truthy(cfg.prefix) THEN cfg.prefix \o ":" \o prefix ELSE prefix]

\* A file-capable Logger created with any level, mode and prefix and no file
\* path.
InitRefine ==
    \E level \in LogLevel, mcpMode \in BOOLEAN, prefix \in Prefixes :
        Constructor(level, mcpMode, prefix, NoPath)

\* The file-capable Logger driven through the interface it has in common with
\* the console-only Logger: the setters, child(), and every public logging
\* method, on the root or on a child.
NextRefine ==
    \/ \E enabled \in BOOLEAN : setMcpMode(enabled)
    \/ \E level \in LogLevel : setLevel(level)
    \/ \E prefix \in Prefixes : setPrefix(prefix)
    \/ Len(others) < MaxFamily /\ child("A")
    \/ \E k \in 1..Len(others) : Turn(k)
    \/ \E message \in Messages, args \in ArgLists : debug(message, args)
    \/ \E message \in Messages, args \in ArgLists : info(message, args)
    \/ \E message \in Messages, args \in ArgLists : warn(message, args)
    \/ \E message \in Messages, args \in ArgLists : error(message, args)
    \/ \E message \in Messages, args \in ArgLists : log(message, args)
    \/ \E message \in Messages, args \in ArgLists : mcpError(message, args)
    \/ \E message \in Labels, args \in NoArgs : trace(message, args)
    \/ table(ObjArg, UndefinedArg)
    \/ \E label \in Labels : group(label)
    \/ \E label \in Labels : groupCollapsed(label)
    \/ groupEnd
    \/ \E label \in Labels : time(label)
    \/ \E label \in Labels : timeEnd(label)
    \/ \E label \in Labels, args \in NoArgs : timeLog(label, args)
    \/ \E label \in Labels : count(label)
    \/ \E label \in Labels : countReset(label)
    \/ \E condition \in BOOLEAN, message \in Labels, args \in NoArgs :
          assert(condition, message, args)
    \/ \E hasClear \in BOOLEAN : clear(hasClear)
    \/ dir(ObjArg, UndefinedArg)
    \/ dirxml(ObjArg)

SpecRefine == InitRefine /\ [][NextRefine]_vars

\* The configuration of the console-only Logger that stands for a
\* file-capable Logger: the same level, MCP mode and prefix.
SimpleOf(cfg) == [level |-> cfg.level, mcpMode |-> cfg.mcpMode, prefix |-> cfg.prefix]

\* The step leaves the addressed Logger's configuration as it is and makes
\* the console calls `calls`.
SameConsole(calls) == config' = config /\ last'.console = calls

\* The step is a setter: no console call, and the configuration becomes cfg.
SameConfig(cfg) == SimpleOf(config') = cfg /\ last'.console = << >>

\* The step was made by the method `op`.
By(op) == last'.op = op

\* Every severity, log and mcpError step of the file-capable Logger makes the
\* console calls the console-only Logger makes from the same configuration on
\* the same input.
SeverityStepsAgree ==
    LET cfg == SimpleOf(config)
    IN \A message \in Messages, args \in ArgLists :
          /\ By("debug") /\ debug(message, args)
                => SameConsole(Simple_debug(cfg, message, args))
          /\ By("info") /\ info(message, args)
                => SameConsole(Simple_info(cfg, message, args))
          /\ By("warn") /\ warn(message, args)
                => SameConsole(Simple_warn(cfg, message, args))
          /\ By("error") /\ error(message, args)
                => SameConsole(Simple_error(cfg, message, args))
          /\ By("log") /\ log(message, args)
                => SameConsole(Simple_log(cfg, message, args))
          /\ By("mcpError") /\ mcpError(message, args)
                => SameConsole(Simple_mcpError(cfg, message, args))

\* Every step of the file-capable Logger by one of the other console methods
\* makes the console calls the console-only Logger makes from the same
\* configuration on the same input.
LoggingStepsAgree ==
    LET cfg == SimpleOf(config)
    IN /\ \A label \in Labels :
            /\ By("trace") /\ trace(label, << >>)
                  => SameConsole(Simple_trace(cfg, label, << >>))
            /\ By("group") /\ group(label)
                  => SameConsole(Simple_group(cfg, label))
            /\ By("groupCollapsed") /\ groupCollapsed(label)
                  => SameConsole(Simple_groupCollapsed(cfg, label))
            /\ By("time") /\ time(label)
                  => SameConsole(Simple_time(cfg, label))
            /\ By("timeEnd") /\ timeEnd(label)
                  => SameConsole(Simple_timeEnd(cfg, label))
            /\ By("timeLog") /\ timeLog(label, << >>)
                  => SameConsole(Simple_timeLog(cfg, label, << >>))
            /\ By("count") /\ count(label)
                  => SameConsole(Simple_count(cfg, label))
            /\ By("countReset") /\ countReset(label)
                  => SameConsole(Simple_countReset(cfg, label))
            /\ \A condition \in BOOLEAN :
                  By("assert") /\ assert(condition, label, << >>)
                      => SameConsole(Simple_assert(cfg, condition, label, << >>))
       /\ By("table") /\ table(ObjArg, UndefinedArg)
             => SameConsole(Simple_table(cfg, ObjArg, UndefinedArg))
       /\ By("groupEnd") /\ groupEnd
             => SameConsole(Simple_groupEnd(cfg))
       /\ \A hasClear \in BOOLEAN :
             By("clear") /\ clear(hasClear) => SameConsole(Simple_clear(cfg, hasClear))
       /\ By("dir") /\ dir(ObjArg, UndefinedArg)
             => SameConsole(Simple_dir(cfg, ObjArg, UndefinedArg))
       /\ By("dirxml") /\ dirxml(ObjArg)
             => SameConsole(Simple_dirxml(cfg, ObjArg))

\* Every setter and child() call of the file-capable Logger gives the
\* configuration the console-only Logger gets from the same call, and makes
\* no console call.
ConfigStepsAgree ==
    LET cfg == SimpleOf(config)
    IN /\ \A enabled \in BOOLEAN :
            By("setMcpMode") /\ setMcpMode(enabled)
                => SameConfig(Simple_setMcpMode(cfg, enabled))
       /\ \A level \in LogLevel :
            By("setLevel") /\ setLevel(level)
                => SameConfig(Simple_setLevel(cfg, level))
       /\ \A prefix \in Prefixes :
            By("setPrefix") /\ setPrefix(prefix)
                => SameConfig(Simple_setPrefix(cfg, prefix))
       /\ \A prefix \in ChildNames :
            By("child") /\ child(prefix)
                => /\ SameConsole(<< >>)
                   /\ SimpleOf(others'[Len(others')].config) = Simple_child(cfg, prefix)

\* C30: the file-capable Logger refines the console-only Logger. Two Loggers
\* created with the same level, MCP mode and prefix and no file path have the
\* same configuration; from the same configuration every setter and child()
\* call leads both to the same configuration again, and every public logging
\* method makes both invoke the same console primitives with the same
\* arguments in the same order. So the same sequence of calls gives the same
\* sequence of console invocations.
C30_FileLoggerRefinesConsoleLogger ==
    /\ \A level \in LogLevel, mcpMode \in BOOLEAN, prefix \in Prefixes :
          Constructor(level, mcpMode, prefix, NoPath)
              => SimpleOf(config) = Simple_constructor(level, mcpMode, prefix)
    /\ [][SeverityStepsAgree /\ LoggingStepsAgree /\ ConfigStepsAgree]_vars

\* A child Logger, after setLevel on it, printed a warning with its chained
\* prefix and an extra argument.
C30_Witness ==
    /\ others # << >> /\ me.names = <<"A">>
    /\ config.level = "warn" /\ ~config.mcpMode /\ config.prefix = "P:A"
    /\ config.logToFile = NoPath
    /\ last.op = "warn" /\ last.input[2] = <<ObjArg>>
    /\ last.console = Simple_warn(SimpleOf(config), "m", <<ObjArg>>)
    /\ last.console # << >>

====
